---- MODULE Spec2Model ----
(***************************************************************************)
(* Model of the eleven-audiobooks pipeline core:                           *)
(*   - PipelineState (src/eleven_audiobooks/pipeline_state.py and the      *)
(*     top-level src/pipeline_state.py),                                    *)
(*   - PipelineManager.process and its stage methods                       *)
(*     (src/eleven_audiobooks/pipeline_manager.py),                         *)
(*   - StorageEngine.get_audiobook_url,                                    *)
(*   - AudioGenerator.generate_chapter / _generate_audio_with_retry,       *)
(*   - BatchTextOptimizer.optimize / _optimize_chunk_with_rate_limit.      *)
(***************************************************************************)
EXTENDS Integers, Sequences, FiniteSets, TLC

VARIABLES
    ps,        \* the PipelineState object: [state |-> State, history |-> Seq(State)]
    variant,   \* which PipelineState class is instantiated: "pkg" or "root"
    pc,        \* position of the PipelineManager.process coroutine
    translate, \* the translate argument of process
    chapters,  \* len(chapters): chapters of the dict handed from stage to stage
    idx,       \* chapters already handled by the loop of the current stage
    exc,       \* message of the exception being handled (None when none is)
    result,    \* what process returned
    audio_files, \* chapter numbers i with output_dir/audio/chapter_i.mp3 on disk
    gridfs,    \* chapter numbers i with chapter_i.mp3 stored in fs.files
    gen,       \* the running AudioGenerator.generate_chapter call
    opt,       \* the BatchTextOptimizer object and its running optimize call
    faults,    \* str(e) of the exceptions the external services raise in this run
    tra,       \* the running TranslationPipeline.translate_chapters call
    call       \* a call of a helper method: its name, arguments and returned value

psVars == <<ps, variant>>
procVars == <<pc, translate, chapters, idx, exc, result, audio_files, gridfs>>
vars == <<ps, variant, pc, translate, chapters, idx, exc, result, audio_files,
          gridfs, gen, opt, faults, tra, call>>

(***************************************************************************)
(* Bounds of the model                                                     *)
(***************************************************************************)
MaxHistory == 2
MaxChapters == 2
MaxChunks == 2
MaxAudioBatch == 6
MaxOptBatch == 4
MaxRetryBatch == 2
MaxStageCalls == 4
MaxArtifacts == 3
MaxTotal == 10
MaxProgressCalls == 1
MaxLen == 6
ChunkBudget == 4
MaxBatchChunks == 4
SubBatchSize == 2
MaxChapterNum == 2

(***************************************************************************)
(* ProcessingStage and the values of Optional arguments                    *)
(***************************************************************************)
INITIALIZED == "initialized"
PDF_PROCESSING == "pdf_processing"
TRANSLATION == "translation"
OPTIMIZATION == "optimization"
AUDIO_GENERATION == "audio_generation"
COMPLETED == "completed"
FAILED == "failed"

ProcessingStage ==
    {INITIALIZED, PDF_PROCESSING, TRANSLATION, OPTIMIZATION,
     AUDIO_GENERATION, COMPLETED, FAILED}

\* Python's None for the Optional[str] / Optional[ProcessingStage] arguments
None == "<None>"
\* Python's None for the Optional[int] arguments
NoneInt == 0 - 1

\* error messages; "" is the message of an exception raised without arguments
Msgs == {"", "boom", "bang"}

\* no helper method has been called
NoCall == [fn |-> "none"]

(***************************************************************************)
(* Artifact names and paths.  A name is kept as its stage prefix and the   *)
(* rest; a path as its parent directory, the word of its stem and the      *)
(* integer that ends the stem (NoneInt when it ends in none).              *)
(***************************************************************************)
ChapterName(prefix, n) == [prefix |-> prefix, rest |-> "chapter_", num |-> n]
\* mutant of DirName: the directories are recorded under keys "audio_<d>"
DirNameAudio(d) == [prefix |-> "audio_", rest |-> d, num |-> NoneInt]

\* _setup_directories: the key f"dir_{d}"
DirName(d) == [prefix |-> "dir_", rest |-> d, num |-> NoneInt]
ChapterPath(dir, n) == [parent |-> dir, word |-> "chapter_", num |-> n]
DirPath(d) == [parent |-> "output", word |-> d, num |-> NoneInt]

(***************************************************************************)
(* PipelineState                                                           *)
(***************************************************************************)
State0 ==
    [stage |-> INITIALIZED, current_chapter |-> 0, total_chapters |-> 0,
     error |-> None, artifacts |-> <<>>]

PipelineState0 == [state |-> State0, history |-> <<>>]

\* dict assignment d[name] = path: a new key goes last, an old key keeps its place
DictPut(d, name, path) ==
    IF \E i \in DOMAIN d : d[i].name = name
    THEN [i \in DOMAIN d |->
            IF d[i].name = name THEN [name |-> name, path |-> path] ELSE d[i]]
    ELSE Append(d, [name |-> name, path |-> path])

\* mutant of update_state: "if error:" in place of "if error is not None:"
update_state_truthy(p, stage, current_chapter, total_chapters, error) ==
    LET s1 == IF stage # None THEN [p.state EXCEPT !.stage = stage] ELSE p.state
        s2 == IF current_chapter # NoneInt
              THEN [s1 EXCEPT !.current_chapter = current_chapter] ELSE s1
        s3 == IF total_chapters # NoneInt
              THEN [s2 EXCEPT !.total_chapters = total_chapters] ELSE s2
        s4 == IF error # None /\ error # ""
              THEN [s3 EXCEPT !.error = error, !.stage = FAILED] ELSE s3
    IN  [state |-> s4, history |-> Append(p.history, p.state)]

\* mutant of update_state: the snapshot is appended after the fields are set
update_state_append_after(p, stage, current_chapter, total_chapters, error) ==
    LET s1 == IF stage # None THEN [p.state EXCEPT !.stage = stage] ELSE p.state
        s2 == IF current_chapter # NoneInt
              THEN [s1 EXCEPT !.current_chapter = current_chapter] ELSE s1
        s3 == IF total_chapters # NoneInt
              THEN [s2 EXCEPT !.total_chapters = total_chapters] ELSE s2
        s4 == IF error # None
              THEN [s3 EXCEPT !.error = error, !.stage = FAILED] ELSE s3
    IN  [state |-> s4, history |-> Append(p.history, s4)]

\* eleven_audiobooks.pipeline_state.PipelineState.update_state
update_state(p, stage, current_chapter, total_chapters, error) ==
    LET s1 == IF stage # None THEN [p.state EXCEPT !.stage = stage] ELSE p.state
        s2 == IF current_chapter # NoneInt
              THEN [s1 EXCEPT !.current_chapter = current_chapter] ELSE s1
        s3 == IF total_chapters # NoneInt
              THEN [s2 EXCEPT !.total_chapters = total_chapters] ELSE s2
        s4 == IF error # None
              THEN [s3 EXCEPT !.error = error, !.stage = FAILED] ELSE s3
    IN  [state |-> s4, history |-> Append(p.history, p.state)]

\* eleven_audiobooks.pipeline_state.PipelineState.add_artifact
add_artifact(p, name, path) ==
    [p EXCEPT !.state.artifacts = DictPut(p.state.artifacts, name, path)]

\* eleven_audiobooks.pipeline_state.PipelineState.can_proceed
can_proceed(p) == p.state.stage # FAILED

RECURSIVE FirstNotFailed(_, _)
\* the stage of the first entry of h at or after i that is not FAILED
FirstNotFailed(h, i) ==
    IF i > Len(h) THEN INITIALIZED
    ELSE IF h[i].stage # FAILED THEN h[i].stage
    ELSE FirstNotFailed(h, i + 1)

\* mutant of get_last_successful_stage: history is scanned oldest first
get_first_successful_stage(p) ==
    IF p.history = <<>> THEN INITIALIZED ELSE FirstNotFailed(p.history, 1)

RECURSIVE LastNotFailed(_, _)
\* "for state in reversed(self.history): if state.stage != FAILED: return
\* state.stage", from entry i down; INITIALIZED when the loop ends
LastNotFailed(h, i) ==
    IF i = 0 THEN INITIALIZED
    ELSE IF h[i].stage # FAILED THEN h[i].stage
    ELSE LastNotFailed(h, i - 1)

\* eleven_audiobooks.pipeline_state.PipelineState.get_last_successful_stage
get_last_successful_stage(p) ==
    IF p.history = <<>> THEN INITIALIZED ELSE LastNotFailed(p.history, Len(p.history))

\* mutant of StagePrefix: the audio stage is given the optimization prefix
StagePrefixCopied(stage) ==
    CASE stage = PDF_PROCESSING -> "pdf_"
      [] stage = TRANSLATION -> "translated_"
      [] stage = OPTIMIZATION -> "optimized_"
      [] stage = AUDIO_GENERATION -> "optimized_"
      [] OTHER -> ""

\* the prefix table of get_artifacts_by_stage; "" for the stages without one
StagePrefix(stage) ==
    CASE stage = PDF_PROCESSING -> "pdf_"
      [] stage = TRANSLATION -> "translated_"
      [] stage = OPTIMIZATION -> "optimized_"
      [] stage = AUDIO_GENERATION -> "audio_"
      [] OTHER -> ""

\* get_chapter_num: the integer ending the path's stem, 0 when int() raises
get_chapter_num(path) == IF path.num # NoneInt THEN path.num ELSE 0

RECURSIVE SortedByChapterNum(_)
\* sorted(artifacts, key=get_chapter_num): stable, ascending
SortedByChapterNum(paths) ==
    IF paths = <<>> THEN <<>>
    ELSE LET i == CHOOSE i \in DOMAIN paths :
                    \A j \in DOMAIN paths :
                        \/ get_chapter_num(paths[i]) < get_chapter_num(paths[j])
                        \/ /\ get_chapter_num(paths[i]) = get_chapter_num(paths[j])
                           /\ i <= j
             rest == [j \in 1..(Len(paths) - 1) |->
                        IF j < i THEN paths[j] ELSE paths[j + 1]]
         IN  <<paths[i]>> \o SortedByChapterNum(rest)

RECURSIVE PathsWithPrefix(_, _)
\* [path for key, path in artifacts.items() if key.startswith(prefix)]
PathsWithPrefix(arts, prefix) ==
    IF arts = <<>> THEN <<>>
    ELSE IF Head(arts).name.prefix = prefix
         THEN <<Head(arts).path>> \o PathsWithPrefix(Tail(arts), prefix)
         ELSE PathsWithPrefix(Tail(arts), prefix)

\* eleven_audiobooks.pipeline_state.PipelineState.get_artifacts_by_stage
get_artifacts_by_stage(p, stage) ==
    IF StagePrefix(stage) = "" THEN <<>>
    ELSE SortedByChapterNum(PathsWithPrefix(p.state.artifacts, StagePrefix(stage)))

RECURSIVE Gcd(_, _)
Gcd(a, b) == IF b = 0 THEN a ELSE Gcd(b, a % b)

\* a float, kept as the fraction in lowest terms that it stands for (the
\* rounding of the float operations is not kept)
Float(n, d) == [num |-> n \div Gcd(n, d), den |-> d \div Gcd(n, d)]

\* what a division by zero gives
ZeroDivisionError == [num |-> 0, den |-> 0]

\* mutant of get_progress: the division is not guarded
get_progress_unguarded(p) ==
    IF p.state.total_chapters = 0 THEN ZeroDivisionError
    ELSE Float(p.state.current_chapter * 100, p.state.total_chapters)

\* eleven_audiobooks.pipeline_state.PipelineState.get_progress
get_progress(p) ==
    IF p.state.total_chapters = 0 THEN Float(0, 1)
    ELSE Float(p.state.current_chapter * 100, p.state.total_chapters)

\* The top-level PipelineState appends self.state itself to history, so every
\* history entry is the one live ProcessingState object.
Aliased(p) == [p EXCEPT !.history = [i \in DOMAIN p.history |-> p.state]]

\* pipeline_state.PipelineState.update_state (top-level variant):
\* stage is required, "if error:" tests truthiness
update_state_root(p, stage, current_chapter, error) ==
    LET s1 == [p.state EXCEPT !.stage = stage]
        s2 == IF current_chapter # NoneInt
              THEN [s1 EXCEPT !.current_chapter = current_chapter] ELSE s1
        s3 == IF error # None /\ error # ""
              THEN [s2 EXCEPT !.error = error, !.stage = FAILED] ELSE s2
    IN  Aliased([state |-> s3, history |-> Append(p.history, p.state)])

\* pipeline_state.PipelineState.add_artifact (top-level variant)
add_artifact_root(p, name, path) ==
    Aliased([p EXCEPT !.state.artifacts = DictPut(p.state.artifacts, name, path)])

(***************************************************************************)
(* StorageEngine.get_audiobook_url(output_dir)                             *)
(***************************************************************************)
RECURSIVE Digits(_)
\* str(n): the decimal digits of a chapter number
Digits(n) == IF n < 10 THEN <<n>> ELSE Append(Digits(n \div 10), n % 10)

\* "chapter_<a>.mp3" < "chapter_<b>.mp3" as strings ('.' sorts before every digit)
LexLess(a, b) ==
    \/ \E k \in 1..Len(a) :
         /\ k <= Len(b)
         /\ \A j \in 1..(k - 1) : a[j] = b[j]
         /\ a[k] < b[k]
    \/ /\ Len(a) < Len(b)
       /\ \A j \in 1..Len(a) : a[j] = b[j]

\* sorted(output_dir.glob("audio/*.mp3"))[-1]
LastAudioFile(files) ==
    CHOOSE f \in files : \A g \in files \ {f} : LexLess(Digits(g), Digits(f))

NoResult == [kind |-> "None", file |-> 0]
Pending == [kind |-> "pending", file |-> 0]
Url(f) == [kind |-> "url", file |-> f]

\* mutant of get_audiobook_url: find_one is asked for the file's full path
\* instead of its name, and finds no document
get_audiobook_url_by_path(files, db) == NoResult

\* the value get_audiobook_url returns when no call of it raises
get_audiobook_url(files, db) ==
    IF files = {} THEN NoResult
    ELSE IF LastAudioFile(files) \notin db THEN NoResult
    ELSE Url(LastAudioFile(files))

(***************************************************************************)
(* AudioGenerator.generate_chapter: one task per chunk, admitted by a      *)
(* semaphore created for the call, each running _generate_audio_with_retry *)
(***************************************************************************)
AUDIO_MAX_CONCURRENT_REQUESTS == 5
AUDIO_MAX_RETRIES == 3

GenIdle == [status |-> "idle", tasks |-> <<>>, sem |-> 0, exc |-> None, out |-> <<>>]

AUDIO_RETRY_DELAY == 2

\* a chunk task: retries and err are the locals retries and last_error, wait
\* is the argument of its last asyncio.sleep, res the chunk its returned audio
\* was generated from
NewTask == [st |-> "new", retries |-> 0, err |-> None, wait |-> 0, res |-> 0]

\* str(e) of the exception of a failing external call: a transient one (the
\* service is unavailable) and one about the input
CallErrors == {"boom"}
ValidationErrors == {"invalid"}

\* mutant of AudioTaskChunk: every task is handed the last chunk
AudioTaskChunkLast(g, c) == Len(g.tasks)

\* line 74: tasks = [process_chunk(chunk) for chunk in text_chunks]; the c-th
\* task is called with the c-th chunk
AudioTaskChunk(g, c) == c

\* asyncio.gather(*tasks): the list of the tasks' results, in the order of
\* the tasks
GatherResults(tasks) == [c \in DOMAIN tasks |-> tasks[c].res]

\* lines 61-75: the text is split in n chunks, tasks are created and gathered
GenStart(n) ==
    [status |-> "running", tasks |-> [c \in 1..n |-> NewTask],
     sem |-> AUDIO_MAX_CONCURRENT_REQUESTS, exc |-> None, out |-> <<>>]

\* "async with semaphore": a task enters when a permit is free; the tasks of
\* one gather reach the semaphore in the order of the chunks
SemaphoreAdmits(g, c) ==
    /\ g.sem > 0
    /\ \A d \in 1..(c - 1) : g.tasks[d].st # "new"

\* number of tasks inside the external call (or its retry loop) of the batch
InFlight(g) == Cardinality({c \in DOMAIN g.tasks : g.tasks[c].st \in {"call", "sleep"}})

\* a task passes the semaphore and issues its first generate() call
TaskAcquire(c) ==
    /\ gen.status \in {"running", "raised"}
    /\ c \in DOMAIN gen.tasks
    /\ gen.tasks[c].st = "new"
    /\ SemaphoreAdmits(gen, c)
    /\ gen' = [gen EXCEPT !.sem = @ - 1, !.tasks[c].st = "call"]
    /\ UNCHANGED <<psVars, faults, tra, call, procVars, opt>>

\* generate() returns: the task returns the audio (its locals retries and
\* last_error are gone) and leaves the semaphore
TaskCallSucceeds(c) ==
    /\ c \in DOMAIN gen.tasks
    /\ gen.tasks[c].st = "call"
    /\ gen' = [gen EXCEPT !.sem = @ + 1,
                          !.tasks[c] = [NewTask EXCEPT !.st = "ok",
                                                       !.res = AudioTaskChunk(gen, c)]]
    /\ UNCHANGED <<psVars, faults, tra, call, procVars, opt>>

\* line 177: asyncio.sleep(self.RETRY_DELAY * retries)
audio_wait_time(retries) == AUDIO_RETRY_DELAY * retries

\* generate() raises: last_error = e, retries += 1, sleep
TaskCallFails(c) ==
    /\ c \in DOMAIN gen.tasks
    /\ gen.tasks[c].st = "call"
    /\ \E m \in faults :
         gen' = [gen EXCEPT !.tasks[c] =
                    [@ EXCEPT !.st = "sleep", !.retries = @ + 1, !.err = m,
                              !.wait = audio_wait_time(gen.tasks[c].retries + 1)]]
    /\ UNCHANGED <<psVars, faults, tra, call, procVars, opt>>

\* "while retries < self.MAX_RETRIES"
audio_retry_allowed(retries) == retries < AUDIO_MAX_RETRIES

\* mutant of TaskWakes: a task that gives up keeps its permit
TaskWakesKeepsPermit(c) ==
    /\ c \in DOMAIN gen.tasks
    /\ gen.tasks[c].st = "sleep"
    /\ gen' = IF audio_retry_allowed(gen.tasks[c].retries)
              THEN [gen EXCEPT !.tasks[c].st = "call"]
              ELSE [gen EXCEPT !.tasks[c].st = "err"]
    /\ UNCHANGED <<psVars, faults, tra, call, procVars, opt>>

\* the sleep ends: the loop issues the next call, or raises last_error
TaskWakes(c) ==
    /\ c \in DOMAIN gen.tasks
    /\ gen.tasks[c].st = "sleep"
    /\ gen' = IF audio_retry_allowed(gen.tasks[c].retries)
              THEN [gen EXCEPT !.tasks[c].st = "call"]
              ELSE [gen EXCEPT !.sem = @ + 1, !.tasks[c].st = "err"]
    /\ UNCHANGED <<psVars, faults, tra, call, procVars, opt>>

\* mutant of GenGatherRaises: the gather cancels the tasks that have not
\* finished when it raises
GenGatherRaisesCancels ==
    /\ gen.status = "running"
    /\ \E c \in DOMAIN gen.tasks :
         /\ gen.tasks[c].st = "err"
         /\ gen' = [gen EXCEPT !.status = "raised", !.exc = gen.tasks[c].err,
                               !.tasks = [d \in DOMAIN @ |->
                                            IF @[d].st \in {"ok", "err"} THEN @[d]
                                            ELSE [@[d] EXCEPT !.st = "cancelled"]]]
    /\ UNCHANGED <<psVars, faults, tra, call, procVars, opt>>

\* asyncio.gather raises the first exception of a task to generate_chapter;
\* the sibling tasks are not cancelled
GenGatherRaises ==
    /\ gen.status = "running"
    /\ \E c \in DOMAIN gen.tasks :
         /\ gen.tasks[c].st = "err"
         /\ gen' = [gen EXCEPT !.status = "raised", !.exc = gen.tasks[c].err]
    /\ UNCHANGED <<psVars, faults, tra, call, procVars, opt>>

\* every task returned: _combine_audio_chunks, which returns or raises
GenGatherReturns ==
    /\ gen.status = "running"
    /\ \A c \in DOMAIN gen.tasks : gen.tasks[c].st = "ok"
    /\ \/ gen' = [gen EXCEPT !.status = "returned", !.out = GatherResults(gen.tasks)]
       \/ \E m \in Msgs : gen' = [gen EXCEPT !.status = "raised", !.exc = m]
    /\ UNCHANGED <<psVars, faults, tra, call, procVars, opt>>

(***************************************************************************)
(* BatchTextOptimizer.optimize: one task per chunk, all running            *)
(* _optimize_chunk_with_rate_limit under the semaphore of the instance.    *)
(* Time is counted in seconds; of the clock only the differences the code  *)
(* uses are kept, each capped at REQUEST_WAIT_TIME.                        *)
(***************************************************************************)
OPT_MAX_CONCURRENT_REQUESTS == 3
REQUEST_WAIT_TIME == 1
OPT_MAX_RETRIES == 3
OPT_RETRY_DELAY == 2

Min(a, b) == IF a < b THEN a ELSE b

\* a time difference, of which only "less than REQUEST_WAIT_TIME" is used
Capped(d) == Min(d, REQUEST_WAIT_TIME)

\* __init__: last_request_time = 0 (long ago on the clock of time.time()),
\* a semaphore of MAX_CONCURRENT_REQUESTS permits, no optimize call running.
\*   time_since_last: time.time() - self.last_request_time
\*   since_call:      time since the last external call was issued
\*   gap:             smallest time between two consecutive external calls
OptIdle ==
    [status |-> "idle", tasks |-> <<>>, sem |-> OPT_MAX_CONCURRENT_REQUESTS,
     time_since_last |-> REQUEST_WAIT_TIME, since_call |-> REQUEST_WAIT_TIME,
     gap |-> REQUEST_WAIT_TIME, out |-> <<>>, exc |-> None]

\* a chunk task: retries and err are the locals retries and last_error, timer
\* is what is left of its asyncio.sleep, res the chunk its returned text was
\* optimized from
NewOptTask == [st |-> "new", retries |-> 0, timer |-> 0, err |-> None, res |-> 0]

\* lines 97-100: the c-th task is called with the c-th chunk
OptTaskChunk(o, c) == c

\* optimize, lines 94-102: the text is split in n chunks, one task per chunk
OptBegin(o, n) ==
    [o EXCEPT !.status = "running", !.tasks = [c \in 1..n |-> NewOptTask]]

\* the first optimize call of a BatchTextOptimizer
OptStart(n) == OptBegin(OptIdle, n)

\* optimize has returned to its caller: last_request_time and the semaphore
\* stay with the object
OptEnd(o) == [o EXCEPT !.status = "idle", !.tasks = <<>>, !.out = <<>>]

\* mutant of OptSemaphoreAdmits: the permits are not counted
OptSemaphoreUnbounded(o, c) == \A d \in 1..(c - 1) : o.tasks[d].st # "new"

\* "async with self.semaphore": a task enters when a permit is free; the
\* tasks of one gather reach the semaphore in the order of the chunks
OptSemaphoreAdmits(o, c) ==
    /\ o.sem > 0
    /\ \A d \in 1..(c - 1) : o.tasks[d].st # "new"

\* number of tasks between the entry and the exit of "async with"
OptInFlight(o) ==
    Cardinality({c \in DOMAIN o.tasks : o.tasks[c].st \in {"wait", "call", "backoff"}})

\* self._optimize_chunk(chunk) is awaited: the request goes out
IssueCall(o, c) ==
    [o EXCEPT !.tasks[c].st = "call", !.gap = Min(@, o.since_call), !.since_call = 0]

\* lines 210-218 when no wait is needed: last_request_time = time.time()
StampAndCall(o, c) == IssueCall([o EXCEPT !.time_since_last = 0], c)

\* lines 210-215: the task passes the semaphore and compares the clock with
\* last_request_time; it sleeps for the rest of REQUEST_WAIT_TIME, or goes on
\* to its first call without a pause
OptAcquire(c) ==
    /\ opt.status \in {"running", "raised"}
    /\ c \in DOMAIN opt.tasks
    /\ opt.tasks[c].st = "new"
    /\ OptSemaphoreAdmits(opt, c)
    /\ LET o == [opt EXCEPT !.sem = @ - 1]
       IN  opt' = IF o.time_since_last < REQUEST_WAIT_TIME
                  THEN [o EXCEPT !.tasks[c].st = "wait",
                                 !.tasks[c].timer = REQUEST_WAIT_TIME - o.time_since_last]
                  ELSE StampAndCall(o, c)
    /\ UNCHANGED <<psVars, faults, tra, call, procVars, gen>>

\* lines 215-224: the sleep of the rate limit is over; last_request_time is
\* set and the first call is issued
OptWaitEnds(c) ==
    /\ c \in DOMAIN opt.tasks
    /\ opt.tasks[c].st = "wait"
    /\ opt.tasks[c].timer = 0
    /\ opt' = StampAndCall(opt, c)
    /\ UNCHANGED <<psVars, faults, tra, call, procVars, gen>>

\* mutant of OptCallSucceeds: the task reports its chunk to the PipelineState
OptCallSucceedsReports(c) ==
    /\ c \in DOMAIN opt.tasks
    /\ opt.tasks[c].st = "call"
    /\ opt' = [opt EXCEPT !.sem = @ + 1,
                          !.tasks[c] = [NewOptTask EXCEPT !.st = "ok",
                                                          !.res = OptTaskChunk(opt, c)]]
    /\ ps' = [ps EXCEPT !.state.total_chapters = c]
    /\ UNCHANGED <<variant, faults, tra, call, procVars, gen>>

\* lines 226-227: the call returns, the task returns and leaves the semaphore
OptCallSucceeds(c) ==
    /\ c \in DOMAIN opt.tasks
    /\ opt.tasks[c].st = "call"
    /\ opt' = [opt EXCEPT !.sem = @ + 1,
                          !.tasks[c] = [NewOptTask EXCEPT !.st = "ok",
                                                          !.res = OptTaskChunk(opt, c)]]
    /\ UNCHANGED <<psVars, faults, tra, call, procVars, gen>>

RECURSIVE Pow2(_)
Pow2(n) == IF n = 0 THEN 1 ELSE 2 * Pow2(n - 1)

\* line 231: wait_time = self.RETRY_DELAY * (2 ** (retries - 1))
opt_wait_time(retries) == OPT_RETRY_DELAY * Pow2(retries - 1)

\* lines 228-233: the call raises; retries += 1, sleep(wait_time)
OptCallFails(c) ==
    /\ c \in DOMAIN opt.tasks
    /\ opt.tasks[c].st = "call"
    /\ \E m \in faults :
         opt' = [opt EXCEPT !.tasks[c] =
                    [@ EXCEPT !.st = "backoff", !.retries = @ + 1, !.err = m,
                              !.timer = opt_wait_time(opt.tasks[c].retries + 1)]]
    /\ UNCHANGED <<psVars, faults, tra, call, procVars, gen>>

\* "while retries < self.MAX_RETRIES"
opt_retry_allowed(retries) == retries < OPT_MAX_RETRIES

\* lines 224-237: the sleep after a failure is over; the loop issues the next
\* call, or raises last_error and leaves the semaphore
OptBackoffEnds(c) ==
    /\ c \in DOMAIN opt.tasks
    /\ opt.tasks[c].st = "backoff"
    /\ opt.tasks[c].timer = 0
    /\ opt' = IF opt_retry_allowed(opt.tasks[c].retries)
              THEN IssueCall(opt, c)
              ELSE [opt EXCEPT !.sem = @ + 1, !.tasks[c].st = "err"]
    /\ UNCHANGED <<psVars, faults, tra, call, procVars, gen>>

\* asyncio.gather raises the first exception of a task to optimize, which
\* logs and re-raises it; the sibling tasks are not cancelled
OptGatherRaises ==
    /\ opt.status = "running"
    /\ \E c \in DOMAIN opt.tasks :
         /\ opt.tasks[c].st = "err"
         /\ opt' = [opt EXCEPT !.status = "raised", !.exc = opt.tasks[c].err]
    /\ UNCHANGED <<psVars, faults, tra, call, procVars, gen>>

\* every task returned: optimize joins the chunks and returns
OptGatherReturns ==
    /\ opt.status = "running"
    /\ \A c \in DOMAIN opt.tasks : opt.tasks[c].st = "ok"
    /\ opt' = [opt EXCEPT !.status = "returned", !.out = GatherResults(opt.tasks)]
    /\ UNCHANGED <<psVars, faults, tra, call, procVars, gen>>

\* a second passes: asyncio.sleep timers run down, the clock moves away from
\* last_request_time and from the last call
Tick ==
    /\ opt' = [opt EXCEPT
                 !.tasks = [c \in DOMAIN @ |->
                              [@[c] EXCEPT !.timer = IF @ > 0 THEN @ - 1 ELSE 0]],
                 !.time_since_last = Capped(@ + 1),
                 !.since_call = Capped(@ + 1)]
    /\ UNCHANGED <<psVars, faults, tra, call, procVars, gen>>

(***************************************************************************)
(* TranslationPipeline.translate_chapters: the chapters are split into     *)
(* chunks, one _translate_chunk task per chunk of the whole book, all      *)
(* handed to a single asyncio.gather (a DeepL client is configured)        *)
(***************************************************************************)
TraIdle == [status |-> "idle", tasks |-> <<>>, exc |-> None]

\* _split_chapters: the chunks of the chapters 1..n in the order of the dict,
\* each carrying metadata["chapter_id"]; counts[k] is the number of chunks the
\* sentences of chapter k fill (0 for a chapter without a sentence)
RECURSIVE SplitChapters(_, _)
SplitChapters(counts, n) ==
    IF n = 0 THEN <<>>
    ELSE SplitChapters(counts, n - 1) \o [i \in 1..counts[n] |-> n]

\* lines 53-60: the list of coroutines and asyncio.gather(*tasks)
TraStart(counts) ==
    LET chunks == SplitChapters(counts, Len(counts))
    IN  [status |-> "running",
         tasks |-> [i \in DOMAIN chunks |-> [st |-> "new", chapter_id |-> chunks[i]]],
         exc |-> None]

\* _translate_chunk starts: the tasks of a gather start in the order of the
\* list, and each hands its translate_text call to the executor at once
TranslateChunkStarts(c) ==
    /\ tra.status \in {"running", "raised"}
    /\ c \in DOMAIN tra.tasks
    /\ tra.tasks[c].st = "new"
    /\ \A d \in 1..(c - 1) : tra.tasks[d].st # "new"
    /\ tra' = [tra EXCEPT !.tasks[c].st = "call"]
    /\ UNCHANGED <<psVars, faults, call, procVars, gen, opt>>

\* translate_text returns
TranslateChunkSucceeds(c) ==
    /\ c \in DOMAIN tra.tasks
    /\ tra.tasks[c].st = "call"
    /\ tra' = [tra EXCEPT !.tasks[c].st = "ok"]
    /\ UNCHANGED <<psVars, faults, call, procVars, gen, opt>>

\* translate_text raises: logged and raised again, there is no retry
TranslateChunkFails(c) ==
    /\ c \in DOMAIN tra.tasks
    /\ tra.tasks[c].st = "call"
    /\ tra' = [tra EXCEPT !.tasks[c].st = "err"]
    /\ UNCHANGED <<psVars, faults, call, procVars, gen, opt>>

\* asyncio.gather raises the first exception to translate_chapters
TraGatherRaises ==
    /\ tra.status = "running"
    /\ \E c \in DOMAIN tra.tasks : tra.tasks[c].st = "err"
    /\ \E m \in faults : tra' = [tra EXCEPT !.status = "raised", !.exc = m]
    /\ UNCHANGED <<psVars, faults, call, procVars, gen, opt>>

\* every task returned: the chunks are combined back into chapters
TraGatherReturns ==
    /\ tra.status = "running"
    /\ \A c \in DOMAIN tra.tasks : tra.tasks[c].st = "ok"
    /\ tra' = [tra EXCEPT !.status = "returned"]
    /\ UNCHANGED <<psVars, faults, call, procVars, gen, opt>>

(***************************************************************************)
(* PipelineManager (eleven_audiobooks/pipeline_manager.py)                 *)
(***************************************************************************)
\* PipelineManager reads self.state.artifacts[...] (lines 140, 166, 197, 221)
\* and the tests read pipeline_manager.state.artifacts; pipeline_state.py
\* defines no such attribute on PipelineState.  It is taken to be the
\* artifacts mapping of the PipelineState record.
artifacts(p) == p.state.artifacts

\* self.state.artifacts["dir_<d>"]
ArtifactsDir(p, d) ==
    LET i == CHOOSE i \in DOMAIN artifacts(p) : artifacts(p)[i].name = DirName(d)
    IN  artifacts(p)[i].path

\* self.state.artifacts["dir_<d>"] / f"chapter_{n}.<ext>"
ChapterFile(p, d, n) == ChapterPath(ArtifactsDir(p, d).word, n)

Dirs == <<"chapters", "translated", "optimized", "audio">>

ManagerIdle ==
    /\ pc = "idle"
    /\ translate = FALSE
    /\ chapters = 0
    /\ idx = 0
    /\ exc = None
    /\ result = Pending
    /\ audio_files = {}
    /\ gridfs = {}
    /\ gen = GenIdle
    /\ opt = OptIdle
    /\ faults = CallErrors
    /\ call = NoCall
    /\ tra = TraIdle

\* "except Exception as e: self.state.update_state(error=str(e)); raise" of a
\* stage method, caught by process
StageFails(p, m) ==
    /\ ps' = update_state(p, None, NoneInt, NoneInt, m)
    /\ exc' = m
    /\ pc' = "except"

\* after a stage method returned: "if not self.state.can_proceed(): return
\* await self._handle_failure(Exception(self.state.state.error))"
StageReturns(p, next) ==
    /\ ps' = p
    /\ exc' = IF can_proceed(p) THEN None ELSE p.state.error
    /\ pc' = IF can_proceed(p) THEN next ELSE "except"

\* mutant of AfterPdf: the translate flag is not consulted
AfterPdfAlwaysTranslates(tr) == "translate"

\* process, lines 83-84: "if translate:" decides the stage after PDF processing
AfterPdf(tr) == IF tr THEN "translate" ELSE "optimize"

\* mutant of partial_result: the lookup is not guarded by try/except, so its
\* exception leaves process
partial_result_unguarded(files, db, raises) ==
    IF raises THEN [kind |-> "raised", file |-> 0] ELSE get_audiobook_url(files, db)

\* _handle_failure, lines 244-247: "try: return get_audiobook_url(...) except
\* Exception: return None"
partial_result(files, db, raises) ==
    IF raises THEN NoResult ELSE get_audiobook_url(files, db)

\* _setup_directories: k of the four directories are made before mkdir raises
SetupDirectories ==
    /\ pc = "start"
    /\ \E k \in 0..4 :
         LET p0 == update_state(ps, INITIALIZED, NoneInt, NoneInt, None)
             made[j \in 0..4] ==
                 IF j = 0 THEN p0
                 ELSE add_artifact(made[j - 1], DirName(Dirs[j]), DirPath(Dirs[j]))
         IN  IF k = 4
             THEN /\ ps' = made[4]
                  /\ pc' = "pdf"
                  /\ exc' = None
             ELSE \E m \in Msgs : StageFails(made[k], m)
    /\ UNCHANGED <<variant, faults, tra, call, translate, chapters, idx, result, audio_files, gridfs, gen, opt>>

\* _process_pdf, line 131
ProcessPdfBegin ==
    /\ pc = "pdf"
    /\ ps' = update_state(ps, PDF_PROCESSING, NoneInt, NoneInt, None)
    /\ pc' = "pdf_extract"
    /\ UNCHANGED <<variant, faults, tra, call, translate, chapters, idx, exc, result, audio_files, gridfs, gen, opt>>

\* mutant of ProcessPdfExtract: total_chapters is not set (line 136 left out)
ProcessPdfExtractNoTotal ==
    /\ pc = "pdf_extract"
    /\ \/ \E n \in 0..MaxChapters :
            /\ ps' = ps
            /\ chapters' = n
            /\ idx' = 0
            /\ pc' = "pdf_save"
            /\ exc' = None
       \/ /\ \E m \in Msgs : StageFails(ps, m)
          /\ UNCHANGED <<chapters, idx>>
    /\ UNCHANGED <<variant, faults, tra, call, translate, result, audio_files, gridfs, gen, opt>>

\* lines 135-136: pdf_processor.process returns n chapters, numbered 1..n, or raises
ProcessPdfExtract ==
    /\ pc = "pdf_extract"
    /\ \/ \E n \in 0..MaxChapters :
            /\ ps' = [ps EXCEPT !.state.total_chapters = n]
            /\ chapters' = n
            /\ idx' = 0
            /\ pc' = "pdf_save"
            /\ exc' = None
       \/ /\ \E m \in Msgs : StageFails(ps, m)
          /\ UNCHANGED <<chapters, idx>>
    /\ UNCHANGED <<variant, faults, tra, call, translate, result, audio_files, gridfs, gen, opt>>

\* lines 139-142: one chapter file written and recorded, or write_text raises
ProcessPdfSave ==
    /\ pc = "pdf_save"
    /\ idx < chapters
    /\ \/ /\ ps' = add_artifact(ps, ChapterName("pdf_", idx + 1),
                                ChapterFile(ps, "chapters", idx + 1))
          /\ idx' = idx + 1
          /\ UNCHANGED <<pc, exc>>
       \/ /\ \E m \in Msgs : StageFails(ps, m)
          /\ UNCHANGED idx
    /\ UNCHANGED <<variant, faults, tra, call, translate, chapters, result, audio_files, gridfs, gen, opt>>

\* StorageEngine._validate_chapters: "if not chapters: raise ValueError"
NoChaptersProvided == "No chapters provided"

\* lines 145-147: store_original, which rejects an empty dict, then return
ProcessPdfStore ==
    /\ pc = "pdf_save"
    /\ idx = chapters
    /\ IF chapters = 0
       THEN StageFails(ps, NoChaptersProvided)
       ELSE \/ StageReturns(ps, AfterPdf(translate))
            \/ \E m \in Msgs : StageFails(ps, m)
    /\ UNCHANGED <<variant, faults, tra, call, translate, chapters, idx, result, audio_files, gridfs, gen, opt>>

\* _translate_chapters, line 158
TranslateBegin ==
    /\ pc = "translate"
    /\ ps' = update_state(ps, TRANSLATION, NoneInt, NoneInt, None)
    /\ pc' = "translate_call"
    /\ UNCHANGED <<variant, faults, tra, call, translate, chapters, idx, exc, result, audio_files, gridfs, gen, opt>>

\* line 162: translation.translate_chapters returns the translated dict or raises
TranslateCall ==
    /\ pc = "translate_call"
    /\ \/ /\ idx' = 0
          /\ pc' = "translate_save"
          /\ UNCHANGED <<ps, exc>>
       \/ /\ \E m \in Msgs : StageFails(ps, m)
          /\ UNCHANGED idx
    /\ UNCHANGED <<variant, faults, tra, call, translate, chapters, result, audio_files, gridfs, gen, opt>>

\* lines 165-168
TranslateSave ==
    /\ pc = "translate_save"
    /\ idx < chapters
    /\ \/ /\ ps' = add_artifact(ps, ChapterName("translated_", idx + 1),
                                ChapterFile(ps, "translated", idx + 1))
          /\ idx' = idx + 1
          /\ UNCHANGED <<pc, exc>>
       \/ /\ \E m \in Msgs : StageFails(ps, m)
          /\ UNCHANGED idx
    /\ UNCHANGED <<variant, faults, tra, call, translate, chapters, result, audio_files, gridfs, gen, opt>>

\* lines 171-173: store_translated, then return
TranslateStore ==
    /\ pc = "translate_save"
    /\ idx = chapters
    /\ \/ StageReturns(ps, "optimize")
       \/ \E m \in Msgs : StageFails(ps, m)
    /\ UNCHANGED <<variant, faults, tra, call, translate, chapters, idx, result, audio_files, gridfs, gen, opt>>

\* _optimize_chapters, lines 184-187
OptimizeBegin ==
    /\ pc = "optimize"
    /\ ps' = update_state(ps, OPTIMIZATION, NoneInt, NoneInt, None)
    /\ idx' = 0
    /\ pc' = "optimize_loop"
    /\ UNCHANGED <<variant, faults, tra, call, translate, chapters, exc, result, audio_files, gridfs, gen, opt>>

\* lines 190-194: the next chapter is announced and optimizer.optimize is awaited;
\* line 202 when no chapter is left
OptimizeNext ==
    /\ pc = "optimize_loop"
    /\ IF idx < chapters
       THEN /\ ps' = update_state(ps, None, idx + 1, NoneInt, None)
            /\ pc' = "optimize_call"
            /\ \E n \in 0..MaxChunks : opt' = OptBegin(opt, n)
            /\ UNCHANGED exc
       ELSE /\ StageReturns(ps, "audio")
            /\ UNCHANGED opt
    /\ UNCHANGED <<variant, faults, tra, call, translate, chapters, idx, result, audio_files, gridfs, gen>>

\* lines 194-200: optimize has returned; the text is written and recorded,
\* or write_text raises
OptimizeCall ==
    /\ pc = "optimize_call"
    /\ opt.status = "returned"
    /\ opt' = OptEnd(opt)
    /\ \/ /\ ps' = add_artifact(ps, ChapterName("optimized_", idx + 1),
                                ChapterFile(ps, "optimized", idx + 1))
          /\ idx' = idx + 1
          /\ pc' = "optimize_loop"
          /\ UNCHANGED exc
       \/ /\ \E m \in Msgs : StageFails(ps, m)
          /\ UNCHANGED idx
    /\ UNCHANGED <<variant, faults, tra, call, translate, chapters, result, audio_files, gridfs, gen>>

\* lines 204-206: optimize raised
OptimizeFails ==
    /\ pc = "optimize_call"
    /\ opt.status = "raised"
    /\ StageFails(ps, opt.exc)
    /\ UNCHANGED <<variant, faults, tra, call, translate, chapters, idx, result, audio_files, gridfs, gen, opt>>

\* _generate_audio, line 210
GenerateAudioBegin ==
    /\ pc = "audio"
    /\ ps' = update_state(ps, AUDIO_GENERATION, NoneInt, NoneInt, None)
    /\ idx' = 0
    /\ pc' = "audio_loop"
    /\ UNCHANGED <<variant, faults, tra, call, translate, chapters, exc, result, audio_files, gridfs, gen, opt>>

\* mutant of GenerateAudioNext: generate_chapter is called before the chapter
\* is announced in the state
GenerateAudioNextUnannounced ==
    /\ pc = "audio_loop"
    /\ IF idx < chapters
       THEN /\ ps' = ps
            /\ pc' = "audio_call"
            /\ \/ \E n \in 0..MaxChunks : gen' = GenStart(n)
               \/ \E m \in Msgs : gen' = [GenIdle EXCEPT !.status = "raised", !.exc = m]
            /\ UNCHANGED exc
       ELSE /\ StageReturns(ps, "complete")
            /\ UNCHANGED gen
    /\ UNCHANGED <<variant, faults, tra, call, translate, chapters, idx, result, audio_files, gridfs, opt>>

\* lines 214-218: the next chapter is announced and audio_gen.generate_chapter
\* is called on its text, which reads the file (or raises) and splits it in
\* n chunks; the loop ends when no path is left
GenerateAudioNext ==
    /\ pc = "audio_loop"
    /\ IF idx < chapters
       THEN /\ ps' = update_state(ps, None, idx + 1, NoneInt, None)
            /\ pc' = "audio_call"
            /\ \/ \E n \in 0..MaxChunks : gen' = GenStart(n)
               \/ \E m \in Msgs : gen' = [GenIdle EXCEPT !.status = "raised", !.exc = m]
            /\ UNCHANGED exc
       ELSE /\ StageReturns(ps, "complete")
            /\ UNCHANGED gen
    /\ UNCHANGED <<variant, faults, tra, call, translate, chapters, idx, result, audio_files, gridfs, opt>>

\* lines 221-226: generate_chapter returned; the audio is written to
\* audio/chapter_i.mp3, recorded as audio_chapter_i and stored in GridFS
GenerateAudioSave ==
    /\ pc = "audio_call"
    /\ gen.status = "returned"
    /\ gen' = GenIdle
    /\ \/ \* audio_path.write_bytes raises
          /\ \E m \in Msgs : StageFails(ps, m)
          /\ UNCHANGED <<idx, audio_files, gridfs>>
       \/ \* storage.store_audio raises
          /\ \E m \in Msgs :
               StageFails(add_artifact(ps, ChapterName("audio_", idx + 1),
                                       ChapterFile(ps, "audio", idx + 1)), m)
          /\ audio_files' = audio_files \cup {idx + 1}
          /\ UNCHANGED <<idx, gridfs>>
       \/ /\ ps' = add_artifact(ps, ChapterName("audio_", idx + 1),
                                ChapterFile(ps, "audio", idx + 1))
          /\ audio_files' = audio_files \cup {idx + 1}
          /\ gridfs' = gridfs \cup {idx + 1}
          /\ idx' = idx + 1
          /\ pc' = "audio_loop"
          /\ UNCHANGED exc
    /\ UNCHANGED <<variant, faults, tra, call, translate, chapters, result, opt>>

\* lines 228-230: generate_chapter raised
GenerateAudioFails ==
    /\ pc = "audio_call"
    /\ gen.status = "raised"
    /\ StageFails(ps, gen.exc)
    /\ UNCHANGED <<variant, faults, tra, call, translate, chapters, idx, result, audio_files, gridfs, gen, opt>>

\* process, lines 99-100: COMPLETED, then the URL lookup returns or raises
Complete ==
    /\ pc = "complete"
    /\ ps' = update_state(ps, COMPLETED, NoneInt, NoneInt, None)
    /\ \/ /\ result' = get_audiobook_url(audio_files, gridfs)
          /\ pc' = "done"
          /\ UNCHANGED exc
       \/ /\ \E m \in Msgs : exc' = m
          /\ pc' = "except"
          /\ UNCHANGED result
    /\ UNCHANGED <<variant, faults, tra, call, translate, chapters, idx, audio_files, gridfs, gen, opt>>

\* _handle_failure(e): FAILED with str(e); the partial result is the URL
\* lookup's value, or None when the lookup raises
HandleFailure ==
    /\ pc = "except"
    /\ ps' = update_state(ps, FAILED, NoneInt, NoneInt, exc)
    /\ \E raises \in BOOLEAN : result' = partial_result(audio_files, gridfs, raises)
    /\ pc' = "done"
    /\ UNCHANGED <<variant, faults, tra, call, translate, chapters, idx, exc, audio_files, gridfs, gen, opt>>

InitProcess ==
    /\ ps = PipelineState0
    /\ variant = "pkg"
    /\ pc = "start"
    /\ translate \in BOOLEAN
    /\ chapters = 0
    /\ idx = 0
    /\ exc = None
    /\ result = Pending
    /\ audio_files = {}
    /\ gridfs = {}
    /\ gen = GenIdle
    /\ opt = OptIdle
    /\ faults = CallErrors
    /\ call = NoCall
    /\ tra = TraIdle

NextProcess ==
    \/ SetupDirectories
    \/ ProcessPdfBegin \/ ProcessPdfExtract \/ ProcessPdfSave \/ ProcessPdfStore
    \/ TranslateBegin \/ TranslateCall \/ TranslateSave \/ TranslateStore
    \/ OptimizeBegin \/ OptimizeNext \/ OptimizeCall \/ OptimizeFails
    \/ \E c \in 1..MaxChunks :
         \/ OptAcquire(c) \/ OptWaitEnds(c)
         \/ OptCallSucceeds(c) \/ OptCallFails(c) \/ OptBackoffEnds(c)
    \/ OptGatherRaises \/ OptGatherReturns
    \/ Tick
    \/ GenerateAudioBegin \/ GenerateAudioNext \/ GenerateAudioSave
    \/ GenerateAudioFails
    \/ Complete \/ HandleFailure
    \/ \E c \in 1..MaxChunks :
         TaskAcquire(c) \/ TaskCallSucceeds(c) \/ TaskCallFails(c) \/ TaskWakes(c)
    \/ GenGatherRaises \/ GenGatherReturns

Spec == InitProcess /\ [][NextProcess]_vars

\* the event loop keeps running whatever is ready, and every awaited call
\* eventually returns or raises
FairSpec == Spec /\ WF_vars(NextProcess)

(***************************************************************************)
(* Calls of the PipelineState API by an arbitrary client                   *)
(***************************************************************************)
StageArgs == ProcessingStage \cup {None}
ChapterArgs == {NoneInt, 1}
TotalArgs == {NoneInt, 2}
ErrorArgs == {None, "", "boom"}
ArtifactArgs ==
    {<<ChapterName("audio_", 1), ChapterPath("audio", 1)>>,
     <<ChapterName("audio_", 1), ChapterPath("tmp", 1)>>,
     <<DirName("audio"), DirPath("audio")>>}

UpdateStateCall ==
    /\ variant = "pkg"
    /\ Len(ps.history) < MaxHistory
    /\ \E stage \in StageArgs, cc \in ChapterArgs, tc \in TotalArgs, e \in ErrorArgs :
         ps' = update_state(ps, stage, cc, tc, e)
    /\ UNCHANGED <<variant, faults, tra, call, procVars, gen, opt>>

UpdateStateRootCall ==
    /\ variant = "root"
    /\ Len(ps.history) < MaxHistory
    /\ \E stage \in ProcessingStage, cc \in ChapterArgs, e \in ErrorArgs :
         ps' = update_state_root(ps, stage, cc, e)
    /\ UNCHANGED <<variant, faults, tra, call, procVars, gen, opt>>

AddArtifactCall ==
    /\ \E a \in ArtifactArgs :
         ps' = IF variant = "pkg" THEN add_artifact(ps, a[1], a[2])
                                  ELSE add_artifact_root(ps, a[1], a[2])
    /\ UNCHANGED <<variant, faults, tra, call, procVars, gen, opt>>

InitState ==
    /\ ps = PipelineState0
    /\ variant \in {"pkg", "root"}
    /\ ManagerIdle

NextState == UpdateStateCall \/ UpdateStateRootCall \/ AddArtifactCall

SpecState == InitState /\ [][NextState]_vars

(***************************************************************************)
(* Calls of update_state that pass a stage and an error only               *)
(***************************************************************************)
StageErrorArgs == {None, "boom"}

UpdateStageCall ==
    /\ variant = "pkg"
    /\ Len(ps.history) < MaxStageCalls
    /\ \E stage \in StageArgs, e \in StageErrorArgs :
         ps' = update_state(ps, stage, NoneInt, NoneInt, e)
    /\ UNCHANGED <<variant, faults, tra, call, procVars, gen, opt>>

InitStages ==
    /\ ps = PipelineState0
    /\ variant = "pkg"
    /\ ManagerIdle

SpecStages == InitStages /\ [][UpdateStageCall]_vars

(***************************************************************************)
(* One batch of chunk tasks, of AudioGenerator.generate_chapter or of      *)
(* BatchTextOptimizer.optimize, with more chunks than the semaphore admits *)
(***************************************************************************)
InitCalls ==
    /\ ps = PipelineState0
    /\ variant = "pkg"
    /\ pc = "idle"
    /\ translate = FALSE
    /\ chapters = 0
    /\ idx = 0
    /\ exc = None
    /\ result = Pending
    /\ audio_files = {}
    /\ gridfs = {}
    /\ faults = CallErrors
    /\ call = NoCall
    /\ tra = TraIdle
    /\ \/ gen = GenIdle /\ \E n \in 1..MaxOptBatch : opt = OptStart(n)
       \/ opt = OptIdle /\ \E n \in 1..MaxAudioBatch : gen = GenStart(n)

NextCalls ==
    \/ \E c \in 1..MaxAudioBatch :
         TaskAcquire(c) \/ TaskCallSucceeds(c) \/ TaskCallFails(c) \/ TaskWakes(c)
    \/ GenGatherRaises \/ GenGatherReturns
    \/ \E c \in 1..MaxOptBatch :
         \/ OptAcquire(c) \/ OptWaitEnds(c)
         \/ OptCallSucceeds(c) \/ OptCallFails(c) \/ OptBackoffEnds(c)
    \/ OptGatherRaises \/ OptGatherReturns
    \/ Tick

SpecCalls == InitCalls /\ [][NextCalls]_vars

\* the event loop runs every task that is ready, every external call returns
\* or raises, and every sleep ends
FairSpecCalls == SpecCalls /\ WF_vars(NextCalls)

(***************************************************************************)
(* One small batch of chunk tasks whose external calls may raise errors of *)
(* both kinds                                                              *)
(***************************************************************************)
InitRetry ==
    /\ ps = PipelineState0
    /\ variant = "pkg"
    /\ pc = "idle"
    /\ translate = FALSE
    /\ chapters = 0
    /\ idx = 0
    /\ exc = None
    /\ result = Pending
    /\ audio_files = {}
    /\ gridfs = {}
    /\ faults = CallErrors \cup ValidationErrors
    /\ call = NoCall
    /\ tra = TraIdle
    /\ \/ gen = GenIdle /\ \E n \in 1..MaxRetryBatch : opt = OptStart(n)
       \/ opt = OptIdle /\ \E n \in 1..MaxRetryBatch : gen = GenStart(n)

SpecRetry == InitRetry /\ [][NextCalls]_vars

(***************************************************************************)
(* One translate_chapters call on a book of up to MaxChapters chapters,    *)
(* each filling up to MaxChunks chunks                                      *)
(***************************************************************************)
InitTranslate ==
    /\ ps = PipelineState0
    /\ variant = "pkg"
    /\ pc = "idle"
    /\ translate = TRUE
    /\ idx = 0
    /\ exc = None
    /\ result = Pending
    /\ audio_files = {}
    /\ gridfs = {}
    /\ faults = CallErrors
    /\ call = NoCall
    /\ gen = GenIdle
    /\ opt = OptIdle
    /\ chapters \in 1..MaxChapters
    /\ \E counts \in [1..chapters -> 0..MaxChunks] : tra = TraStart(counts)

NextTranslate ==
    \/ \E c \in 1..(MaxChapters * MaxChunks) :
         TranslateChunkStarts(c) \/ TranslateChunkSucceeds(c) \/ TranslateChunkFails(c)
    \/ TraGatherRaises \/ TraGatherReturns

SpecTranslate == InitTranslate /\ [][NextTranslate]_vars

(***************************************************************************)
(* Calls of add_artifact by an arbitrary client, with keys and paths whose *)
(* numbers need not agree (as in test_get_artifacts_by_stage)              *)
(***************************************************************************)
ChapterNums == {NoneInt} \cup (1..MaxChapterNum)

\* keys such as "pdf_1", "audio_2", "pdf_cover", "other_artifact"
ArtifactKeys ==
    {[prefix |-> pf, rest |-> "", num |-> n] :
        pf \in {"pdf_", "audio_", "other_"}, n \in ChapterNums}

\* paths such as Path("/test/1"), Path("/test/other")
ArtifactPaths == {[parent |-> "test", word |-> "", num |-> n] : n \in ChapterNums}

AddArtifactAny ==
    /\ \E name \in ArtifactKeys, path \in ArtifactPaths :
         /\ \/ Len(ps.state.artifacts) < MaxArtifacts
            \/ \E i \in DOMAIN ps.state.artifacts : ps.state.artifacts[i].name = name
         /\ ps' = add_artifact(ps, name, path)
    /\ UNCHANGED <<variant, faults, tra, call, procVars, gen, opt>>

InitArtifacts ==
    /\ ps = PipelineState0
    /\ variant = "pkg"
    /\ ManagerIdle

SpecArtifacts == InitArtifacts /\ [][AddArtifactAny]_vars

(***************************************************************************)
(* A client that sets total_chapters and reports the current chapter, as   *)
(* _process_pdf and the stage loops do                                      *)
(***************************************************************************)
\* self.state.state.total_chapters = len(chapters)
SetTotalChapters ==
    /\ \E n \in 0..MaxTotal : ps' = [ps EXCEPT !.state.total_chapters = n]
    /\ UNCHANGED <<variant, faults, tra, call, procVars, gen, opt>>

\* update_state(stage=PDF_PROCESSING, current_chapter=n)
UpdateChapterCall ==
    /\ Len(ps.history) < MaxProgressCalls
    /\ \E n \in 0..MaxTotal :
         ps' = update_state(ps, PDF_PROCESSING, n, NoneInt, None)
    /\ UNCHANGED <<variant, faults, tra, call, procVars, gen, opt>>

InitProgress ==
    /\ ps = PipelineState0
    /\ variant = "pkg"
    /\ ManagerIdle

NextProgress == SetTotalChapters \/ UpdateChapterCall

SpecProgress == InitProgress /\ [][NextProgress]_vars

(***************************************************************************)
(* Text.  A str is the sequence of its characters; the texts explored are  *)
(* written in a small alphabet with a lower-case letter, a capital, a      *)
(* sentence end, a space and a newline.                                    *)
(***************************************************************************)
Alphabet == {"a", "A", ".", " ", "\n"}
Whitespace == {" ", "\n"}
SentenceEnds == {".", "!", "?"}
Capitals == {"A"}

Texts == UNION {[1..k -> Alphabet] : k \in 0..MaxLen}

RECURSIVE LStrip(_)
LStrip(s) == IF s # <<>> /\ Head(s) \in Whitespace THEN LStrip(Tail(s)) ELSE s

RECURSIVE RStrip(_)
RStrip(s) ==
    IF s # <<>> /\ s[Len(s)] \in Whitespace THEN RStrip(SubSeq(s, 1, Len(s) - 1)) ELSE s

\* str.strip()
Strip(s) == RStrip(LStrip(s))

RECURSIVE SplitWords(_, _, _)
\* str.split(): the maximal runs of characters that are not whitespace
SplitWords(s, word, acc) ==
    IF s = <<>> THEN (IF word # <<>> THEN Append(acc, word) ELSE acc)
    ELSE IF Head(s) \in Whitespace
         THEN SplitWords(Tail(s), <<>>, IF word # <<>> THEN Append(acc, word) ELSE acc)
         ELSE SplitWords(Tail(s), Append(word, Head(s)), acc)

Words(s) == SplitWords(s, <<>>, <<>>)

RECURSIVE SplitBlankLines(_, _, _)
\* str.split("\n\n"): cut at every "\n\n", scanning from the left
SplitBlankLines(s, piece, acc) ==
    IF s = <<>> THEN Append(acc, piece)
    ELSE IF Len(s) >= 2 /\ s[1] = "\n" /\ s[2] = "\n"
         THEN SplitBlankLines(SubSeq(s, 3, Len(s)), <<>>, Append(acc, piece))
         ELSE SplitBlankLines(Tail(s), Append(piece, Head(s)), acc)

RECURSIVE StripAll(_)
\* [p.strip() for p in pieces if p.strip()]
StripAll(pieces) ==
    IF pieces = <<>> THEN <<>>
    ELSE IF Strip(Head(pieces)) # <<>>
         THEN <<Strip(Head(pieces))>> \o StripAll(Tail(pieces))
         ELSE StripAll(Tail(pieces))

\* [p.strip() for p in text.split("\n\n") if p.strip()]
Paragraphs(text) == StripAll(SplitBlankLines(text, <<>>, <<>>))

RECURSIVE Join(_, _)
\* sep.join(parts)
Join(parts, sep) ==
    IF parts = <<>> THEN <<>>
    ELSE IF Len(parts) = 1 THEN parts[1]
         ELSE parts[1] \o sep \o Join(Tail(parts), sep)

(***************************************************************************)
(* AudioGenerator._split_text(text), with MAX_CHUNK_SIZE as max            *)
(***************************************************************************)
RECURSIVE AudioSentences(_, _, _)
\* lines 95-108: the sentences, each ending with its sentence end, stripped
AudioSentences(s, current_sentence, sentences) ==
    IF s = <<>>
    THEN IF Strip(current_sentence) # <<>>
         THEN Append(sentences, Strip(current_sentence)) ELSE sentences
    ELSE LET cur == Append(current_sentence, Head(s))
         IN  IF Head(s) \in SentenceEnds /\ Strip(cur) # <<>>
             THEN AudioSentences(Tail(s), <<>>, Append(sentences, Strip(cur)))
             ELSE AudioSentences(Tail(s), cur, sentences)

RECURSIVE AudioPackWords(_, _, _, _)
\* lines 121-128: the words of an over-long sentence
AudioPackWords(words, sub_chunk, chunks, max) ==
    IF words = <<>> THEN [chunks |-> chunks, sub_chunk |-> sub_chunk]
    ELSE LET word == Head(words)
         IN  IF Len(sub_chunk) + Len(word) + 1 > max
             THEN AudioPackWords(Tail(words), word, Append(chunks, sub_chunk), max)
             ELSE AudioPackWords(Tail(words),
                                 IF sub_chunk # <<>> THEN sub_chunk \o <<" ">> \o word
                                                     ELSE word,
                                 chunks, max)

RECURSIVE AudioPack(_, _, _, _)
\* lines 111-142: the sentences are combined into chunks
AudioPack(sentences, current_chunk, chunks, max) ==
    IF sentences = <<>>
    THEN IF current_chunk # <<>> THEN Append(chunks, current_chunk) ELSE chunks
    ELSE LET sentence == Head(sentences)
             closed == IF current_chunk # <<>> THEN Append(chunks, current_chunk)
                                               ELSE chunks
             w == AudioPackWords(Words(sentence), <<>>, closed, max)
             separator == IF current_chunk # <<>> /\ current_chunk[Len(current_chunk)] # " "
                          THEN <<" ">> ELSE <<>>
         IN  IF Len(current_chunk) + Len(sentence) > max
             THEN IF Len(sentence) > max
                  THEN AudioPack(Tail(sentences), w.sub_chunk, w.chunks, max)
                  ELSE AudioPack(Tail(sentences), sentence, closed, max)
             ELSE AudioPack(Tail(sentences), current_chunk \o separator \o sentence,
                            chunks, max)

\* eleven_audiobooks.audio_generator.AudioGenerator._split_text
audio_split_text(text, max) ==
    AudioPack(AudioSentences(text, <<>>, <<>>), <<>>, <<>>, max)

(***************************************************************************)
(* BatchTextOptimizer._split_text(text), with the literal 4000 as max      *)
(***************************************************************************)
SkipWhitespace(s) == LStrip(s)

RECURSIVE ReSplitSentences(_, _, _)
\* re.split(r'(?<=[.!?])\s+(?=[A-Z])', text): a cut removes a run of
\* whitespace that starts right after a sentence end and is followed by a
\* capital
ReSplitSentences(s, piece, acc) ==
    IF s = <<>> THEN Append(acc, piece)
    ELSE IF /\ piece # <<>>
            /\ piece[Len(piece)] \in SentenceEnds
            /\ Head(s) \in Whitespace
            /\ SkipWhitespace(s) # <<>>
            /\ Head(SkipWhitespace(s)) \in Capitals
         THEN ReSplitSentences(SkipWhitespace(s), <<>>, Append(acc, piece))
         ELSE ReSplitSentences(Tail(s), Append(piece, Head(s)), acc)

RECURSIVE EndSentences(_)
\* lines 188-195: strip, end with a '.' what has no sentence end, drop the empty
EndSentences(pieces) ==
    IF pieces = <<>> THEN <<>>
    ELSE LET sentence == Strip(Head(pieces))
         IN  IF sentence = <<>> THEN EndSentences(Tail(pieces))
             ELSE IF sentence[Len(sentence)] \in SentenceEnds
                  THEN <<sentence>> \o EndSentences(Tail(pieces))
                  ELSE <<Append(sentence, ".")>> \o EndSentences(Tail(pieces))

\* eleven_audiobooks.batch_text_optimizer.BatchTextOptimizer._split_into_sentences
split_into_sentences(text) == EndSentences(ReSplitSentences(text, <<>>, <<>>))

RECURSIVE OptPackSentences(_, _, _, _, _)
\* lines 141-156: the sentences of an over-long paragraph
OptPackSentences(sentences, temp_chunk, temp_length, chunks, max) ==
    IF sentences = <<>>
    THEN IF temp_chunk # <<>> THEN Append(chunks, Join(temp_chunk, <<"\n">>)) ELSE chunks
    ELSE LET sentence == Head(sentences)
             flush == temp_length + Len(sentence) > max /\ temp_chunk # <<>>
         IN  IF flush
             THEN OptPackSentences(Tail(sentences), <<sentence>>, Len(sentence) + 1,
                                   Append(chunks, Join(temp_chunk, <<"\n">>)), max)
             ELSE OptPackSentences(Tail(sentences), Append(temp_chunk, sentence),
                                   temp_length + Len(sentence) + 1, chunks, max)

RECURSIVE OptPack(_, _, _, _, _)
\* lines 129-168: the paragraphs are combined into chunks
OptPack(paragraphs, current_chunk, current_length, chunks, max) ==
    IF paragraphs = <<>>
    THEN IF current_chunk # <<>>
         THEN Append(chunks, Join(current_chunk, <<"\n", "\n">>)) ELSE chunks
    ELSE LET para == Head(paragraphs)
             closed == IF current_chunk # <<>>
                       THEN Append(chunks, Join(current_chunk, <<"\n", "\n">>))
                       ELSE chunks
         IN  IF current_length + Len(para) > max
             THEN IF Len(para) > max
                  THEN OptPack(Tail(paragraphs), <<>>, IF current_chunk # <<>> THEN 0
                                                       ELSE current_length,
                               OptPackSentences(split_into_sentences(para), <<>>, 0,
                                                closed, max), max)
                  ELSE OptPack(Tail(paragraphs), <<>>, IF current_chunk # <<>> THEN 0
                                                       ELSE current_length,
                               Append(closed, para), max)
             ELSE OptPack(Tail(paragraphs), Append(current_chunk, para),
                          current_length + Len(para) + 2, chunks, max)

\* eleven_audiobooks.batch_text_optimizer.BatchTextOptimizer._split_text
opt_split_text(text, max) == OptPack(Paragraphs(text), <<>>, 0, <<>>, max)

(***************************************************************************)
(* The top-level BatchTextOptimizer._split_into_chunks(content, max)       *)
(***************************************************************************)
RECURSIVE PackParagraphs(_, _, _, _, _)
\* src/batch_text_optimizer.py, lines 76-85
PackParagraphs(paragraphs, current_chunk, current_size, chunks, max) ==
    IF paragraphs = <<>>
    THEN IF current_chunk # <<>>
         THEN Append(chunks, Join(current_chunk, <<"\n", "\n">>)) ELSE chunks
    ELSE LET para == Head(paragraphs)
         IN  IF current_size + Len(para) > max /\ current_chunk # <<>>
             THEN PackParagraphs(Tail(paragraphs), <<para>>, Len(para),
                                 Append(chunks, Join(current_chunk, <<"\n", "\n">>)), max)
             ELSE PackParagraphs(Tail(paragraphs), Append(current_chunk, para),
                                 current_size + Len(para), chunks, max)

\* batch_text_optimizer.BatchTextOptimizer._split_into_chunks
split_into_chunks(content, max_chunk_size) ==
    PackParagraphs(Paragraphs(content), <<>>, 0, <<>>, max_chunk_size)

(***************************************************************************)
(* The chunkers applied to one text                                        *)
(***************************************************************************)
AudioSplitCall ==
    /\ call.fn = "text"
    /\ call' = [fn |-> "AudioGenerator._split_text", text |-> call.text,
                chunks |-> audio_split_text(call.text, ChunkBudget)]
    /\ UNCHANGED <<psVars, faults, tra, procVars, gen, opt>>

OptSplitCall ==
    /\ call.fn = "text"
    /\ call' = [fn |-> "BatchTextOptimizer._split_text", text |-> call.text,
                chunks |-> opt_split_text(call.text, ChunkBudget)]
    /\ UNCHANGED <<psVars, faults, tra, procVars, gen, opt>>

SplitIntoChunksCall ==
    /\ call.fn = "text"
    /\ call' = [fn |-> "BatchTextOptimizer._split_into_chunks", text |-> call.text,
                chunks |-> split_into_chunks(call.text, ChunkBudget)]
    /\ UNCHANGED <<psVars, faults, tra, procVars, gen, opt>>

InitSplit ==
    /\ ps = PipelineState0
    /\ variant = "pkg"
    /\ pc = "idle"
    /\ translate = FALSE
    /\ chapters = 0
    /\ idx = 0
    /\ exc = None
    /\ result = Pending
    /\ audio_files = {}
    /\ gridfs = {}
    /\ gen = GenIdle
    /\ opt = OptIdle
    /\ faults = CallErrors
    /\ tra = TraIdle
    /\ \E text \in Texts : call = [fn |-> "text", text |-> text]

NextSplit == AudioSplitCall \/ OptSplitCall \/ SplitIntoChunksCall

SpecSplit == InitSplit /\ [][NextSplit]_vars

(***************************************************************************)
(* The top-level BatchTextOptimizer.optimize_chapter                       *)
(* (src/batch_text_optimizer.py) with BatchTextReader.get_batch_results.   *)
(* The chunks are numbered 0..n-1; the optimized text of chunk k is kept   *)
(* as <<k>>, an empty content as <<>>, and the separator "\n\n" of the     *)
(* written file as -1.  SubBatchSize stands for BATCH_SIZE (50), scaled to *)
(* the chunk counts explored.                                              *)
(***************************************************************************)
\* f"{i:03d}" for i < 1000: three decimal digits
Format03d(i) == <<(i \div 100) % 10, (i \div 10) % 10, i % 10>>

RECURSIVE ParseInt(_)
\* int() of a string of decimal digits
ParseInt(digits) ==
    IF digits = <<>> THEN 0
    ELSE 10 * ParseInt(SubSeq(digits, 1, Len(digits) - 1)) + digits[Len(digits)]

\* custom_id=f"{chapter_path.stem}_chunk_{i:03d}"
CustomId(i) == [stem |-> "chapter", index |-> Format03d(i)]

\* BatchResult(custom_id, content) for the request of chunk k
BatchResult(k, empty) == [custom_id |-> CustomId(k), content |-> IF empty THEN <<>> ELSE <<k>>]

\* key=lambda x: int(x.custom_id.split('_')[-1])
SortKey(r) == ParseInt(r.custom_id.index)

RECURSIVE SortedByIndex(_)
\* sorted(results, key=...): stable, ascending
SortedByIndex(results) ==
    IF results = <<>> THEN <<>>
    ELSE LET i == CHOOSE i \in DOMAIN results :
                    \A j \in DOMAIN results :
                        \/ SortKey(results[i]) < SortKey(results[j])
                        \/ SortKey(results[i]) = SortKey(results[j]) /\ i <= j
             rest == [j \in 1..(Len(results) - 1) |->
                        IF j < i THEN results[j] ELSE results[j + 1]]
         IN  <<results[i]>> \o SortedByIndex(rest)

RECURSIVE Contents(_)
\* (r.content for r in sorted_results if r.content)
Contents(results) ==
    IF results = <<>> THEN <<>>
    ELSE IF Head(results).content # <<>>
         THEN <<Head(results).content>> \o Contents(Tail(results))
         ELSE Contents(Tail(results))

\* mutant of optimized_content: the results are joined in the order of arrival
optimized_content_as_arrived(results) == Join(Contents(results), <<0 - 1>>)

\* line 57: "\n\n".join(r.content for r in sorted_results if r.content)
optimized_content(results) == Join(Contents(SortedByIndex(results)), <<0 - 1>>)

\* lines 23-41: the chapter is read and split, one request per chunk
OptimizeChapterStart(n) ==
    [fn |-> "optimize_chapter", n |-> n, i |-> 0, results |-> <<>>,
     status |-> "running", written |-> <<>>, exc |-> None, pending |-> {}]

\* lines 46-51: one sub-batch is created, its id persisted, and
\* get_batch_results retrieves its status once (batch_text_reader.py:23):
\* when it has ended the records of the results file are returned in the
\* order of the file; when it has not, [] is returned at once (lines 35-37)
\* and the loop goes on to the next sub-batch; or one of the calls raises.
\* pending holds the first index of each sub-batch read before it ended.
SubBatch ==
    /\ call.fn = "optimize_chapter"
    /\ call.status = "running"
    /\ call.i < call.n
    /\ \/ \E got \in SUBSET (call.i .. (Min(call.i + SubBatchSize, call.n) - 1)) :
            \E order \in [1..Cardinality(got) -> got], empty \in SUBSET got :
               /\ \A p, q \in DOMAIN order : order[p] = order[q] => p = q
               /\ call' = [call EXCEPT
                             !.i = @ + SubBatchSize,
                             !.results = @ \o [p \in DOMAIN order |->
                                                BatchResult(order[p], order[p] \in empty)]]
       \/ call' = [call EXCEPT !.i = @ + SubBatchSize, !.pending = @ \cup {call.i}]
       \/ \E m \in faults : call' = [call EXCEPT !.status = "raised", !.exc = m]
    /\ UNCHANGED <<psVars, faults, tra, procVars, gen, opt>>

\* lines 53-61: the results are sorted and joined, the file is written
WriteOptimized ==
    /\ call.fn = "optimize_chapter"
    /\ call.status = "running"
    /\ call.i >= call.n
    /\ call' = [call EXCEPT !.status = "returned",
                            !.written = optimized_content(call.results)]
    /\ UNCHANGED <<psVars, faults, tra, procVars, gen, opt>>

InitBatch ==
    /\ ps = PipelineState0
    /\ variant = "pkg"
    /\ pc = "idle"
    /\ translate = FALSE
    /\ chapters = 0
    /\ idx = 0
    /\ exc = None
    /\ result = Pending
    /\ audio_files = {}
    /\ gridfs = {}
    /\ gen = GenIdle
    /\ opt = OptIdle
    /\ faults = CallErrors
    /\ tra = TraIdle
    /\ \E n \in 0..MaxBatchChunks : call = OptimizeChapterStart(n)

NextBatch == SubBatch \/ WriteOptimized

SpecBatch == InitBatch /\ [][NextBatch]_vars

(***************************************************************************)
(* The top-level TranslationPipeline (src/translation_pipeline.py):        *)
(* translate() over a list of chunks 0..n-1, each passed to                *)
(* _translate_chunk, which walks self.translators.  The text a translator  *)
(* returns for chunk k is kept as [by |-> translator, chunk |-> k]; log    *)
(* is the sequence of translator calls made so far.                        *)
(***************************************************************************)
MaxTranslateChunks == 3

\* mutant of translators: AyaTranslator is tried first
translators_aya_first == <<"Aya", "DeepL", "NLLB">>

\* lines 9-13: self.translators
translators == <<"DeepL", "NLLB", "Aya">>

\* line 29
AllTranslatorsFailed == "All translators failed"

\* lines 15-16: translate(chunks) begins with an empty translated_chunks
TranslateStart(n) ==
    [fn |-> "translate", n |-> n, k |-> 0, t |-> 1, log |-> <<>>,
     translated_chunks |-> <<>>, status |-> "running", exc |-> None]

\* line 25 returns: the translator at position t answers, _translate_chunk
\* returns its text and translate() appends it (line 19) and takes the next
\* chunk from the first translator
TranslatorSucceeds ==
    /\ call.fn = "translate"
    /\ call.status = "running"
    /\ call.k < call.n
    /\ call.t <= Len(translators)
    /\ call' = [call EXCEPT
                  !.log = Append(@, [chunk |-> call.k, by |-> translators[call.t], ok |-> TRUE]),
                  !.translated_chunks = Append(@, [by |-> translators[call.t], chunk |-> call.k]),
                  !.k = @ + 1,
                  !.t = 1]
    /\ UNCHANGED <<psVars, faults, tra, procVars, gen, opt>>

\* lines 26-29: the translator at position t raises, the error is printed,
\* the thread sleeps one second and the loop takes the next translator; after
\* the last one the loop is exhausted and line 29 raises, which leaves
\* _translate_chunk and translate(), which has no handler
TranslatorFails ==
    /\ call.fn = "translate"
    /\ call.status = "running"
    /\ call.k < call.n
    /\ call.t <= Len(translators)
    /\ call' = [call EXCEPT
                  !.log = Append(@, [chunk |-> call.k, by |-> translators[call.t], ok |-> FALSE]),
                  !.t = @ + 1,
                  !.status = IF call.t = Len(translators) THEN "raised" ELSE @,
                  !.exc = IF call.t = Len(translators) THEN AllTranslatorsFailed ELSE @]
    /\ UNCHANGED <<psVars, faults, tra, procVars, gen, opt>>

\* line 20: every chunk has been translated
TranslateReturns ==
    /\ call.fn = "translate"
    /\ call.status = "running"
    /\ call.k = call.n
    /\ call' = [call EXCEPT !.status = "returned"]
    /\ UNCHANGED <<psVars, faults, tra, procVars, gen, opt>>

InitBackends ==
    /\ ps = PipelineState0
    /\ variant = "root"
    /\ pc = "idle"
    /\ translate = FALSE
    /\ chapters = 0
    /\ idx = 0
    /\ exc = None
    /\ result = Pending
    /\ audio_files = {}
    /\ gridfs = {}
    /\ gen = GenIdle
    /\ opt = OptIdle
    /\ faults = CallErrors
    /\ tra = TraIdle
    /\ \E n \in 0..MaxTranslateChunks : call = TranslateStart(n)

NextBackends ==
    \/ TranslatorSucceeds
    \/ TranslatorFails
    \/ TranslateReturns

SpecBackends == InitBackends /\ [][NextBackends]_vars

(***************************************************************************)
(* TranslationPipeline.translate_chapters with _split_chapters and         *)
(* _combine_chunks (eleven_audiobooks/translation_pipeline.py) on the      *)
(* texts of the chapters.  A book is the sequence of the texts of chapters *)
(* 1..n in the order of the dict; the chunk size 4000 is the argument max. *)
(* A sentence in work is kept with the chapter it was cut from (ch), which *)
(* the code does not store.                                                *)
(***************************************************************************)
MaxBookChapters == 2
MaxChapterLen == 4

ChapterTexts == UNION {[1..k -> {"a", ".", " "}] : k \in 0..MaxChapterLen}
Books == UNION {[1..n -> ChapterTexts] : n \in 0..MaxBookChapters}

RECURSIVE SplitPeriods(_, _, _)
\* text.split("."): cut at every ".", scanning from the left
SplitPeriods(s, piece, acc) ==
    IF s = <<>> THEN Append(acc, piece)
    ELSE IF Head(s) = "."
         THEN SplitPeriods(Tail(s), <<>>, Append(acc, piece))
         ELSE SplitPeriods(Tail(s), Append(piece, Head(s)), acc)

\* line 97: [s.strip() + "." for s in text.split(".") if s.strip()]
ChapterSentences(text) ==
    LET stripped == StripAll(SplitPeriods(text, <<>>, <<>>))
    IN  [i \in DOMAIN stripped |-> Append(stripped[i], ".")]

\* lines 88-93
NoMetadata ==
    [chapter_id |-> 0, is_chapter_start |-> FALSE, is_chapter_end |-> FALSE, position |-> 0]

\* lines 106-109, 124-127, 144-147: {"text": " ".join(current_chunk),
\* "metadata": current_metadata.copy()}; from is the set of the chapters the
\* sentences of the chunk were cut from
ChunkOf(current_chunk, metadata) ==
    [text |-> Join([i \in DOMAIN current_chunk |-> current_chunk[i].s], <<" ">>),
     metadata |-> metadata,
     from |-> {current_chunk[i].ch : i \in DOMAIN current_chunk}]

\* lines 100-137: one sentence of chapter chapter_id; st holds chunks,
\* current_chunk, current_length, current_metadata and position_in_chapter
SplitSentence(st, chapter_id, sentence, max) ==
    LET first == st.position_in_chapter = 0
        \* lines 102-119
        a == IF first
             THEN IF st.current_chunk # <<>>
                  THEN [st EXCEPT
                          !.chunks = Append(@, ChunkOf(st.current_chunk,
                                       [st.current_metadata EXCEPT !.is_chapter_end = TRUE])),
                          !.current_chunk = <<>>,
                          !.current_length = 0,
                          !.current_metadata =
                              [chapter_id |-> chapter_id, is_chapter_start |-> TRUE,
                               is_chapter_end |-> FALSE, position |-> 0]]
                  ELSE [st EXCEPT
                          !.current_metadata =
                              [chapter_id |-> chapter_id, is_chapter_start |-> TRUE,
                               is_chapter_end |-> FALSE, position |-> 0]]
             ELSE st
        \* lines 122-133
        b == IF a.current_length + Len(sentence) > max /\ a.current_chunk # <<>>
             THEN [a EXCEPT
                     !.chunks = Append(@, ChunkOf(a.current_chunk, a.current_metadata)),
                     !.current_chunk = <<>>,
                     !.current_length = 0,
                     !.current_metadata =
                         [@ EXCEPT !.is_chapter_start = FALSE,
                                   !.position = a.position_in_chapter]]
             ELSE a
    \* lines 135-137
    IN  [b EXCEPT !.current_chunk = Append(@, [s |-> sentence, ch |-> chapter_id]),
                  !.current_length = @ + Len(sentence) + 1,
                  !.position_in_chapter = @ + 1]

RECURSIVE SplitChapter(_, _, _, _)
\* lines 100-140: the sentences of one chapter, then the end mark
SplitChapter(st, chapter_id, sentences, max) ==
    IF sentences = <<>>
    THEN [st EXCEPT !.current_metadata.is_chapter_end = TRUE]
    ELSE SplitChapter(SplitSentence(st, chapter_id, Head(sentences), max),
                      chapter_id, Tail(sentences), max)

RECURSIVE SplitBook(_, _, _, _)
\* lines 95-98: for chapter_id, text in chapters.items(), from chapter k on
SplitBook(st, book, k, max) ==
    IF k > Len(book) THEN st
    ELSE SplitBook(SplitChapter([st EXCEPT !.position_in_chapter = 0], k,
                                ChapterSentences(book[k]), max),
                   book, k + 1, max)

\* TranslationPipeline._split_chapters
split_chapters(book, max) ==
    LET st == SplitBook([chunks |-> <<>>, current_chunk |-> <<>>, current_length |-> 0,
                         current_metadata |-> NoMetadata, position_in_chapter |-> 0],
                        book, 1, max)
    IN  IF st.current_chunk # <<>>
        THEN Append(st.chunks, ChunkOf(st.current_chunk, st.current_metadata))
        ELSE st.chunks

\* key=lambda x: (x["metadata"]["chapter_id"], x["metadata"]["position"]),
\* compared as tuples
ChunkKeyLess(x, y) ==
    \/ x.metadata.chapter_id < y.metadata.chapter_id
    \/ /\ x.metadata.chapter_id = y.metadata.chapter_id
       /\ x.metadata.position < y.metadata.position

RECURSIVE SortedChunks(_)
\* lines 200-203: sorted(chunks, key=...): stable, ascending
SortedChunks(chunks) ==
    IF chunks = <<>> THEN <<>>
    ELSE LET i == CHOOSE i \in DOMAIN chunks :
                    \A j \in DOMAIN chunks :
                        \/ ChunkKeyLess(chunks[i], chunks[j])
                        \/ ~ChunkKeyLess(chunks[j], chunks[i]) /\ i <= j
             rest == [j \in 1..(Len(chunks) - 1) |->
                        IF j < i THEN chunks[j] ELSE chunks[j + 1]]
         IN  <<chunks[i]>> \o SortedChunks(rest)

\* translated[key] = value
DictSet(d, key, value) ==
    [k \in DOMAIN d \cup {key} |-> IF k = key THEN value ELSE d[k]]

RECURSIVE CombineLoop(_, _, _, _)
\* lines 205-224: the loop over sorted_chunks and the last chapter; 0 stands
\* for the chapter id None
CombineLoop(sorted_chunks, translated, current_chapter_id, current_chapter_content) ==
    IF sorted_chunks = <<>>
    THEN IF current_chapter_content # <<>> /\ current_chapter_id # 0
         THEN DictSet(translated, current_chapter_id,
                      Join(current_chapter_content, <<"\n", "\n">>))
         ELSE translated
    ELSE LET chunk == Head(sorted_chunks)
             chapter_id == chunk.metadata.chapter_id
         IN  IF chapter_id # current_chapter_id
             THEN CombineLoop(Tail(sorted_chunks),
                              IF current_chapter_content # <<>>
                              THEN DictSet(translated, current_chapter_id,
                                           Join(current_chapter_content, <<"\n", "\n">>))
                              ELSE translated,
                              chapter_id, <<chunk.text>>)
             ELSE CombineLoop(Tail(sorted_chunks), translated, current_chapter_id,
                              Append(current_chapter_content, chunk.text))

\* TranslationPipeline._combine_chunks; the empty dict is the empty function
combine_chunks(chunks) == CombineLoop(SortedChunks(chunks), <<>>, 0, <<>>)

\* str(result) of translate_text: the translation of a text, which is not
\* the text
Translation(text) == <<"T">> \o text

\* lines 53-59: the chapters are split and one coroutine per chunk is made;
\* done lists the chunks whose translation has returned, in that order
TranslateChaptersStart(book) ==
    [fn |-> "translate_chapters", chapters |-> book,
     chunks |-> split_chapters(book, ChunkBudget), done |-> <<>>,
     status |-> "running", translated |-> <<>>, exc |-> None]

\* _translate_chunk of chunk i returns (lines 163-173); the coroutines run
\* translate_text in the executor, so they return in any order
ChunkTranslated(i) ==
    /\ call.fn = "translate_chapters"
    /\ call.status = "running"
    /\ i \in DOMAIN call.chunks
    /\ \A p \in DOMAIN call.done : call.done[p] # i
    /\ call' = [call EXCEPT !.done = Append(@, i)]
    /\ UNCHANGED <<psVars, faults, tra, procVars, gen, opt>>

\* _translate_chunk of chunk i raises (lines 176-180): gather raises and
\* translate_chapters logs and raises again (lines 71-73)
ChunkTranslationFails(i) ==
    /\ call.fn = "translate_chapters"
    /\ call.status = "running"
    /\ i \in DOMAIN call.chunks
    /\ \A p \in DOMAIN call.done : call.done[p] # i
    /\ \E m \in faults : call' = [call EXCEPT !.status = "raised", !.exc = m]
    /\ UNCHANGED <<psVars, faults, tra, procVars, gen, opt>>

\* lines 60-69: gather returns the texts in the order of the tasks, each is
\* put with the metadata of its chunk, and the chunks are combined
CombineChunks ==
    /\ call.fn = "translate_chapters"
    /\ call.status = "running"
    /\ Len(call.done) = Len(call.chunks)
    /\ call' = [call EXCEPT
                  !.status = "returned",
                  !.translated = combine_chunks(
                      [i \in DOMAIN call.chunks |->
                          [text |-> Translation(call.chunks[i].text),
                           metadata |-> call.chunks[i].metadata]])]
    /\ UNCHANGED <<psVars, faults, tra, procVars, gen, opt>>

InitChapters ==
    /\ ps = PipelineState0
    /\ variant = "pkg"
    /\ pc = "idle"
    /\ translate = TRUE
    /\ chapters = 0
    /\ idx = 0
    /\ exc = None
    /\ result = Pending
    /\ audio_files = {}
    /\ gridfs = {}
    /\ gen = GenIdle
    /\ opt = OptIdle
    /\ faults = CallErrors
    /\ tra = TraIdle
    /\ \E book \in Books : call = TranslateChaptersStart(book)

NextChapters ==
    \/ \E i \in 1..(MaxBookChapters * MaxChapterLen) :
         ChunkTranslated(i) \/ ChunkTranslationFails(i)
    \/ CombineChunks

SpecChapters == InitChapters /\ [][NextChapters]_vars

(***************************************************************************)
(* split_markdown_file with find_last_period_line (src/split_markdown.py)  *)
(* on the content of a file, a text over "a", "." and "\n".  Indices are   *)
(* those of the code, from 0: line i of the code is lines[i + 1].          *)
(***************************************************************************)
MaxFileLen == 5
MaxMaxChars == 3
\* the number of part names chr(97 + part_number) can make before it raises
\* ValueError (0x110000 - 97), scaled to the files explored
PartNames == 6

FileContents == UNION {[1..k -> {"a", ".", "\n"}] : k \in 0..MaxFileLen}

RECURSIVE ReadLines(_, _, _)
\* f.readlines(): every line keeps its "\n"; the last one may have none
ReadLines(s, line, acc) ==
    IF s = <<>> THEN (IF line # <<>> THEN Append(acc, line) ELSE acc)
    ELSE IF Head(s) = "\n"
         THEN ReadLines(Tail(s), <<>>, Append(acc, Append(line, "\n")))
         ELSE ReadLines(Tail(s), Append(line, Head(s)), acc)

RECURSIVE RStripNewlines(_)
\* text.rstrip('\n\r')
RStripNewlines(s) ==
    IF s # <<>> /\ s[Len(s)] = "\n" THEN RStripNewlines(SubSeq(s, 1, Len(s) - 1)) ELSE s

\* lines 15-16
ends_with_period(text) ==
    LET stripped == RStripNewlines(text)
    IN  stripped # <<>> /\ stripped[Len(stripped)] = "."

RECURSIVE ScanPeriods(_, _, _, _, _)
\* lines 34-40: the for loop; last is [found, idx], found FALSE for None
ScanPeriods(lines, i, current_chars, last, max_chars) ==
    IF i >= Len(lines) THEN last
    ELSE IF current_chars + Len(lines[i + 1]) > max_chars THEN last
    ELSE ScanPeriods(lines, i + 1, current_chars + Len(lines[i + 1]),
                     IF ends_with_period(lines[i + 1])
                     THEN [found |-> TRUE, idx |-> i] ELSE last,
                     max_chars)

RECURSIVE LastFitting(_, _, _, _)
\* lines 45-50: the while loop, and "return i - 1"
LastFitting(lines, i, chars_sum, max_chars) ==
    IF i < Len(lines) /\ chars_sum + Len(lines[i + 1]) <= max_chars
    THEN LastFitting(lines, i + 1, chars_sum + Len(lines[i + 1]), max_chars)
    ELSE i - 1

\* split_markdown.find_last_period_line
find_last_period_line(lines, start_idx, max_chars) ==
    LET last == ScanPeriods(lines, start_idx, 0, [found |-> FALSE, idx |-> 0], max_chars)
    IN  IF ~last.found THEN LastFitting(lines, start_idx, 0, max_chars) ELSE last.idx

\* lines 64-77: the file is read; files lists the parts written, each with
\* its part number and the range of lines (from .. to, inclusive) it holds
SplitMarkdownStart(content, max_chars) ==
    [fn |-> "split_markdown_file", lines |-> ReadLines(content, <<>>, <<>>),
     max_chars |-> max_chars, current_idx |-> 0, part_number |-> 0,
     files |-> <<>>, status |-> "running", exc |-> None]

\* lines 79-93: one iteration of the while loop; chr() raises ValueError
\* when no part name is left
SplitPart ==
    /\ call.fn = "split_markdown_file"
    /\ call.status = "running"
    /\ call.current_idx < Len(call.lines)
    /\ LET end_idx == find_last_period_line(call.lines, call.current_idx, call.max_chars)
           content == SubSeq(call.lines, call.current_idx + 1, end_idx + 1)
       IN  IF call.part_number >= PartNames
           THEN call' = [call EXCEPT !.status = "raised", !.exc = "ValueError"]
           ELSE call' = [call EXCEPT
                           !.files = IF \E k \in DOMAIN content : Strip(content[k]) # <<>>
                                     THEN Append(@, [part |-> call.part_number,
                                                     from |-> call.current_idx,
                                                     to |-> end_idx])
                                     ELSE @,
                           !.current_idx = end_idx + 1,
                           !.part_number = @ + 1]
    /\ UNCHANGED <<psVars, faults, tra, procVars, gen, opt>>

\* line 79: the loop ends
SplitReturns ==
    /\ call.fn = "split_markdown_file"
    /\ call.status = "running"
    /\ call.current_idx >= Len(call.lines)
    /\ call' = [call EXCEPT !.status = "returned"]
    /\ UNCHANGED <<psVars, faults, tra, procVars, gen, opt>>

InitMarkdown ==
    /\ ps = PipelineState0
    /\ variant = "root"
    /\ pc = "idle"
    /\ translate = FALSE
    /\ chapters = 0
    /\ idx = 0
    /\ exc = None
    /\ result = Pending
    /\ audio_files = {}
    /\ gridfs = {}
    /\ gen = GenIdle
    /\ opt = OptIdle
    /\ faults = CallErrors
    /\ tra = TraIdle
    /\ \E content \in FileContents, max_chars \in 1..MaxMaxChars :
         call = SplitMarkdownStart(content, max_chars)

NextMarkdown == SplitPart \/ SplitReturns

SpecMarkdown == InitMarkdown /\ [][NextMarkdown]_vars

(***************************************************************************)
(* Claims                                                                  *)
(***************************************************************************)

\* C1: in every state reachable by update_state and add_artifact calls on a
\* fresh eleven_audiobooks PipelineState, a recorded error (error is not None)
\* implies stage == FAILED.
C1_ErrorImpliesFailed ==
    (variant = "pkg" /\ ps.state.error # None) => ps.state.stage = FAILED

\* C2: FAILED is absorbing: once state.stage is FAILED no PipelineState
\* operation (update_state with or without an error, add_artifact) changes
\* state.stage to another value.
C2_FailedAbsorbing ==
    [][ps.state.stage = FAILED => ps'.state.stage = FAILED]_vars

StageTrace ==
    [i \in 1..(Len(ps.history) + 1) |->
        IF i <= Len(ps.history) THEN ps.history[i].stage ELSE ps.state.stage]

RECURSIVE Distinct(_)
\* a sequence without its consecutive repetitions
Distinct(t) ==
    IF Len(t) <= 1 THEN t
    ELSE IF t[1] = t[2] THEN Distinct(Tail(t))
         ELSE <<t[1]>> \o Distinct(Tail(t))

IsPrefix(a, b) == Len(a) <= Len(b) /\ \A i \in 1..Len(a) : a[i] = b[i]

Progression(tr) ==
    IF tr
    THEN <<INITIALIZED, PDF_PROCESSING, TRANSLATION, OPTIMIZATION,
           AUDIO_GENERATION, COMPLETED>>
    ELSE <<INITIALIZED, PDF_PROCESSING, OPTIMIZATION, AUDIO_GENERATION, COMPLETED>>

C5_FailureContained ==
    (pc = "done" /\ exc # None) =>
        /\ result.kind \in {"url", "None"}
        /\ ps.state.stage = FAILED
        /\ ps.state.error = exc

\* C5 witness: PDF extraction raised "boom", the URL lookup of the failure
\* handler found nothing to return, and process returned None
C5_Witness ==
    /\ pc = "done"
    /\ exc = "boom"
    /\ Distinct(StageTrace) = <<INITIALIZED, PDF_PROCESSING, FAILED>>
    /\ ps.state.error = "boom"
    /\ result = NoResult

AudioArtifactChapters ==
    {ps.state.artifacts[i].name.num :
        i \in {j \in DOMAIN ps.state.artifacts :
                  ps.state.artifacts[j].name.prefix = "audio_"}}

Max(S) == CHOOSE x \in S : \A y \in S : y <= x

C9_CallsSpaced == opt.gap >= REQUEST_WAIT_TIME

\* C10: at every moment the number of chunk tasks inside their external call
\* (between entry and exit of the semaphore) is at most 3 for a
\* BatchTextOptimizer and at most 5 for AudioGenerator.generate_chapter,
\* however many chunks the batch has.
C10_InFlightBounded ==
    /\ OptInFlight(opt) <= OPT_MAX_CONCURRENT_REQUESTS
    /\ InFlight(gen) <= AUDIO_MAX_CONCURRENT_REQUESTS
    /\ opt.sem = OPT_MAX_CONCURRENT_REQUESTS - OptInFlight(opt)
    /\ gen.status # "idle" => gen.sem = AUDIO_MAX_CONCURRENT_REQUESTS - InFlight(gen)

\* C10 witness: five audio chunks are in their call and a sixth waits at the
\* semaphore
C10_Witness ==
    /\ Len(gen.tasks) > AUDIO_MAX_CONCURRENT_REQUESTS
    /\ Cardinality({c \in DOMAIN gen.tasks : gen.tasks[c].st = "call"})
          = AUDIO_MAX_CONCURRENT_REQUESTS
    /\ \E c \in DOMAIN gen.tasks : gen.tasks[c].st = "new"

\* external calls a task that has not returned has made so far: every failed
\* call incremented retries, and a task in its call has issued one more
Attempts(t) == IF t.st = "call" THEN t.retries + 1 ELSE t.retries

\* C11: a chunk call that fails on every attempt is attempted MAX_RETRIES + 1
\* times (the first attempt and MAX_RETRIES retries) before its task resolves
\* to an error, and a task whose call succeeded is never attempted again; in
\* both retry loops.
C11_RetriedMaxRetriesTimes ==
    [][
        /\ \A c \in DOMAIN gen'.tasks :
            /\ gen'.tasks[c].st = "err" =>
                  Attempts(gen'.tasks[c]) = AUDIO_MAX_RETRIES + 1
            /\ (c \in DOMAIN gen.tasks /\ gen.tasks[c].st = "ok") =>
                  gen'.tasks[c] = gen.tasks[c]
        /\ \A c \in DOMAIN opt'.tasks :
            /\ opt'.tasks[c].st = "err" =>
                  Attempts(opt'.tasks[c]) = OPT_MAX_RETRIES + 1
            /\ (c \in DOMAIN opt.tasks /\ opt.tasks[c].st = "ok") =>
                  opt'.tasks[c] = opt.tasks[c]
    ]_vars

\* C12: a validation error raised by a chunk's external call is not retried:
\* the task whose last error is a validation error has failed, it neither
\* sleeps nor calls again.
C12_ValidationNotRetried ==
    /\ \A c \in DOMAIN gen.tasks :
         gen.tasks[c].err \in ValidationErrors => gen.tasks[c].st = "err"
    /\ \A c \in DOMAIN opt.tasks :
         opt.tasks[c].err \in ValidationErrors => opt.tasks[c].st = "err"

\* C13: in both retry loops the wait after the k-th consecutive failed attempt
\* is RETRY_DELAY * 2^(k-1).
C13_ExponentialBackoff ==
    [][
        /\ \A c \in DOMAIN gen.tasks :
            (gen.tasks[c].st = "call" /\ gen'.tasks[c].st = "sleep") =>
               gen'.tasks[c].wait = AUDIO_RETRY_DELAY * Pow2(gen'.tasks[c].retries - 1)
        /\ \A c \in DOMAIN opt.tasks :
            (opt.tasks[c].st = "call" /\ opt'.tasks[c].st = "backoff") =>
               opt'.tasks[c].timer = OPT_RETRY_DELAY * Pow2(opt'.tasks[c].retries - 1)
    ]_vars

\* C14: when all chunk tasks of optimize or generate_chapter succeed, the i-th
\* result used for reassembly is the result of the i-th input chunk, whatever
\* the order in which the tasks completed.
C14_ResultsInInputOrder ==
    /\ gen.status = "returned" => gen.out = [c \in 1..Len(gen.tasks) |-> c]
    /\ opt.status = "returned" => opt.out = [c \in 1..Len(opt.tasks) |-> c]

\* C14 witness: an optimize call of more chunks than the semaphore admits at
\* once has returned its reassembled chunks
C14_Witness ==
    /\ opt.status = "returned"
    /\ Len(opt.tasks) > OPT_MAX_CONCURRENT_REQUESTS
    /\ Len(opt.out) = Len(opt.tasks)

\* ---------------------------------------------------------------------------
\* the chunk tasks of a batch that have neither returned nor raised
Outstanding(tasks) == {c \in DOMAIN tasks : tasks[c].st \notin {"ok", "err"}}

\* the steps a chunk task takes by itself: entering the semaphore, waiting,
\* calling, and the outcome of its own call
TaskMoves ==
    {<<"new", "new">>, <<"new", "wait">>, <<"new", "call">>,
     <<"wait", "wait">>, <<"wait", "call">>,
     <<"call", "call">>, <<"call", "ok">>, <<"call", "sleep">>, <<"call", "backoff">>,
     <<"sleep", "sleep">>, <<"sleep", "call">>, <<"sleep", "err">>,
     <<"backoff", "backoff">>, <<"backoff", "call">>, <<"backoff", "err">>}

\* every outstanding task of the batch is still there after the step and has
\* only moved by itself
RunsOn(old, new) ==
    \A c \in Outstanding(old.tasks) :
        /\ c \in DOMAIN new.tasks
        /\ <<old.tasks[c].st, new.tasks[c].st>> \in TaskMoves

HasArtifact(p, name) == \E i \in DOMAIN artifacts(p) : artifacts(p)[i].name = name

\* C16: in every stage, no external call for a chunk of a chapter is issued
\* before every chunk call of the chapters before it has completed: in the
\* translation batch a started chunk task has only finished tasks of earlier
\* chapters before it, and while a chunk task of optimize or generate_chapter
\* is outstanding the chapters before the current one are recorded.
C16_ChaptersInTurn ==
    /\ \A c, d \in DOMAIN tra.tasks :
         (tra.tasks[c].chapter_id < tra.tasks[d].chapter_id /\ tra.tasks[d].st # "new")
            => tra.tasks[c].st \in {"ok", "err"}
    /\ (pc = "optimize_call" /\ Outstanding(opt.tasks) # {}) =>
          \A k \in 1..idx : HasArtifact(ps, ChapterName("optimized_", k))
    /\ (pc = "audio_call" /\ Outstanding(gen.tasks) # {}) =>
          \A k \in 1..idx : HasArtifact(ps, ChapterName("audio_", k))

C18_ErrorForcesFailed ==
    variant = "pkg" =>
        /\ \A stage \in StageArgs, cc \in ChapterArgs, tc \in TotalArgs,
              e \in ErrorArgs \ {None} :
              LET q == update_state(ps, stage, cc, tc, e)
              IN  /\ q.state.stage = FAILED
                  /\ q.state.error = e
                  /\ ~can_proceed(q)
        /\ ~can_proceed(ps) <=> ps.state.stage = FAILED

\* C18 witness: one update_state call with the error "" was made on a fresh
\* PipelineState
C18_Witness ==
    /\ variant = "pkg"
    /\ ps.history = <<State0>>
    /\ ps.state.error = ""
    /\ ps.state.stage = FAILED
    /\ ~can_proceed(ps)

\* C19: history is append-only and holds immutable snapshots: update_state
\* appends exactly one entry, equal to the state right before the call, no
\* other operation changes history, and no entry already in history changes.
C19_HistoryAppendOnly ==
    [][variant = "pkg" =>
         /\ \/ ps'.history = ps.history
            \/ ps'.history = Append(ps.history, ps.state)
         /\ ps'.state.artifacts # ps.state.artifacts => ps'.history = ps.history
         /\ ps'.history = ps.history =>
               ps'.state = [ps.state EXCEPT !.artifacts = ps'.state.artifacts]
    ]_vars

\* C19 witness: two update_state calls were made and an artifact added after
\* them, which the snapshots do not show
C19_Witness ==
    /\ variant = "pkg"
    /\ Len(ps.history) = 2
    /\ ps.history[1] = State0
    /\ ps.history[2].stage # ps.state.stage
    /\ ps.history[2].artifacts = <<>>
    /\ ps.state.artifacts # <<>>

\* C20: get_last_successful_stage() returns the stage of the most recent
\* history entry whose stage is not FAILED, and INITIALIZED when history is
\* empty or every entry is FAILED; after INITIALIZED, PDF_PROCESSING,
\* TRANSLATION, OPTIMIZATION and update_state(stage=AUDIO_GENERATION,
\* error=...) it returns OPTIMIZATION.
C20_LastSuccessfulStage ==
    LET ok == {i \in DOMAIN ps.history : ps.history[i].stage # FAILED}
    IN  /\ get_last_successful_stage(ps) =
              IF ok = {} THEN INITIALIZED ELSE ps.history[Max(ok)].stage
        /\ ([i \in DOMAIN ps.history |-> ps.history[i].stage] =
                 <<INITIALIZED, PDF_PROCESSING, TRANSLATION, OPTIMIZATION>>)
              => get_last_successful_stage(ps) = OPTIMIZATION

\* C20 witness: the run of the scenario, failed at audio generation
C20_Witness ==
    /\ [i \in DOMAIN ps.history |-> ps.history[i].stage] =
          <<INITIALIZED, PDF_PROCESSING, TRANSLATION, OPTIMIZATION>>
    /\ ps.state.stage = FAILED
    /\ ps.state.error = "boom"
    /\ get_last_successful_stage(ps) = OPTIMIZATION

\* the chapter number embedded in an artifact key, 0 when it has none
KeyNum(name) == IF name.num = NoneInt THEN 0 ELSE name.num

\* the artifacts of the dict whose key has the prefix, in the order of the dict
WithPrefix(arts, prefix) == SelectSeq(arts, LAMBDA a : a.name.prefix = prefix)

\* paths is the list of the locations of items in some order that is
\* ascending in the number of the key
AscendingByKey(paths, items) ==
    /\ Len(paths) = Len(items)
    /\ \E f \in Permutations(DOMAIN items) :
         /\ \A k \in DOMAIN items : paths[k] = items[f[k]].path
         /\ \A k, l \in DOMAIN items :
              k < l => KeyNum(items[f[k]].name) <= KeyNum(items[f[l]].name)

\* C21: get_artifacts_by_stage(stage) returns exactly the locations of the
\* artifacts whose key starts with the prefix of the stage (none for
\* INITIALIZED, COMPLETED and FAILED), in ascending order of the chapter
\* number embedded in the key, a key without a number counting as 0.
C21_ArtifactsByStage ==
    /\ \A stage \in {INITIALIZED, COMPLETED, FAILED} :
         get_artifacts_by_stage(ps, stage) = <<>>
    /\ AscendingByKey(get_artifacts_by_stage(ps, PDF_PROCESSING),
                      WithPrefix(ps.state.artifacts, "pdf_"))
    /\ AscendingByKey(get_artifacts_by_stage(ps, TRANSLATION),
                      WithPrefix(ps.state.artifacts, "translated_"))
    /\ AscendingByKey(get_artifacts_by_stage(ps, OPTIMIZATION),
                      WithPrefix(ps.state.artifacts, "optimized_"))
    /\ AscendingByKey(get_artifacts_by_stage(ps, AUDIO_GENERATION),
                      WithPrefix(ps.state.artifacts, "audio_"))

Range(f) == {f[i] : i \in DOMAIN f}

\* positions of process in the order in which a successful run passes them
PcOrder ==
    <<"start", "pdf", "pdf_extract", "pdf_save",
      "translate", "translate_call", "translate_save",
      "optimize", "optimize_loop", "optimize_call",
      "audio", "audio_loop", "audio_call", "complete">>

PcRank(p) == CHOOSE i \in DOMAIN PcOrder : PcOrder[i] = p

\* process is between its stage methods, before the one that begins at `first`
NotStarted(first) == pc \in Range(PcOrder) /\ PcRank(pc) <= PcRank(first)

\* process has passed the stage method that ends at `last` and no later one
\* has failed
Returned(last) ==
    \/ pc \in Range(PcOrder) /\ PcRank(pc) > PcRank(last)
    \/ pc = "done" /\ ps.state.stage = COMPLETED

\* the files chapter_1 .. chapter_n of a directory
ChapterFiles(dir, n) == [k \in 1..n |-> ChapterPath(dir, k)]

C23_Progress ==
    LET r == get_progress(ps)
        cc == ps.state.current_chapter
        tc == ps.state.total_chapters
    IN  /\ r.den > 0
        /\ tc = 0 => r = [num |-> 0, den |-> 1]
        /\ tc # 0 => r.num * tc = cc * 100 * r.den
        /\ (cc = 5 /\ tc = 10) => r = [num |-> 50, den |-> 1]
        /\ (cc = 10 /\ tc = 10) => r = [num |-> 100, den |-> 1]

\* C23 witness: a chapter was reported while total_chapters is still 0, and
\* get_progress gives 0.0
C23_Witness ==
    /\ ps.state.total_chapters = 0
    /\ ps.state.current_chapter = 5
    /\ get_progress(ps).num = 0

\* the chunk is one single word, longer than the budget
OverLongWord(chunk, max) ==
    Len(chunk) > max /\ \A i \in DOMAIN chunk : chunk[i] \notin Whitespace

\* every chunk is within the budget, or is one single over-long word
WithinBudget(chunks, max) ==
    \A i \in DOMAIN chunks : Len(chunks[i]) <= max \/ OverLongWord(chunks[i], max)

\* C24: every chunk returned by AudioGenerator._split_text has length at most
\* MAX_CHUNK_SIZE, except a chunk that is one single word longer than that.
C24_AudioChunksWithinBudget ==
    call.fn = "AudioGenerator._split_text" => WithinBudget(call.chunks, ChunkBudget)

\* C25: every chunk returned by BatchTextOptimizer._split_text has length at
\* most the budget, except a chunk that is one single over-long word: an
\* over-long sentence is split at its words, not emitted whole.
C25_OptChunksWithinBudget ==
    call.fn = "BatchTextOptimizer._split_text" => WithinBudget(call.chunks, ChunkBudget)

\* the chunk is made of two or more paragraphs
HasBlankLine(chunk) ==
    \E i \in 1..(Len(chunk) - 1) : chunk[i] = "\n" /\ chunk[i + 1] = "\n"

\* C26: _split_into_chunks packs the paragraphs in document order and counts
\* the separators: every chunk of two or more paragraphs has joined length at
\* most max_chunk_size, and content whose paragraphs do not all fit gives more
\* than one chunk, the first paragraph being in the first.
C26_SeparatorsCounted ==
    call.fn = "BatchTextOptimizer._split_into_chunks" =>
        LET paragraphs == Paragraphs(call.text)
        IN  /\ \A i \in DOMAIN call.chunks :
                 HasBlankLine(call.chunks[i]) => Len(call.chunks[i]) <= ChunkBudget
            /\ Len(Join(paragraphs, <<"\n", "\n">>)) > ChunkBudget /\ Len(paragraphs) > 1 =>
                 /\ Len(call.chunks) > 1
                 /\ SubSeq(call.chunks[1], 1, Len(paragraphs[1])) = paragraphs[1]

\* the characters of a str that are not whitespace, in their order
NonWhitespace(s) == SelectSeq(s, LAMBDA c : c \notin Whitespace)

RECURSIVE Concat(_)
Concat(parts) == IF parts = <<>> THEN <<>> ELSE Head(parts) \o Concat(Tail(parts))

\* C27: the chunks of BatchTextOptimizer._split_text and of
\* AudioGenerator._split_text, concatenated in order, are exactly the
\* non-whitespace characters of the text in their order.
C27_RoundTrip ==
    call.fn \in {"BatchTextOptimizer._split_text", "AudioGenerator._split_text"} =>
        NonWhitespace(Concat(call.chunks)) = NonWhitespace(call.text)

\* C28: for a text no longer than the budget, the empty and the
\* whitespace-only text included, BatchTextOptimizer._split_text and
\* AudioGenerator._split_text each return exactly one chunk.
C28_ShortTextOneChunk ==
    (/\ call.fn \in {"BatchTextOptimizer._split_text", "AudioGenerator._split_text"}
     /\ Len(call.text) <= ChunkBudget) => Len(call.chunks) = 1

RECURSIVE InSubmissionOrder(_, _, _)
\* the contents that arrived, taken in the order in which the chunks k..n-1
\* were submitted, joined as the file joins them
InSubmissionOrder(results, k, n) ==
    IF k >= n THEN <<>>
    ELSE LET rest == InSubmissionOrder(results, k + 1, n)
         IN  IF \E p \in DOMAIN results : results[p].content = <<k>>
             THEN IF rest = <<>> THEN <<k>> ELSE <<k, 0 - 1>> \o rest
             ELSE rest

\* C29: whatever the order in which the result records arrive, within a
\* sub-batch or across sub-batches, optimize_chapter writes the content it
\* writes when they arrive in the order of submission.
C29_ReassembledByIndex ==
    (call.fn = "optimize_chapter" /\ call.status = "returned") =>
        call.written = InSubmissionOrder(call.results, 0, call.n)

\* C29 witness: optimize_chapter has returned for a chapter of more chunks
\* than one sub-batch holds, every result has arrived, and two records
\* arrived in the reverse of their submission order.
C29_Witness ==
    /\ call.fn = "optimize_chapter"
    /\ call.status = "returned"
    /\ call.n > SubBatchSize
    /\ Len(call.results) = call.n
    /\ \E p, q \in DOMAIN call.results :
         p < q /\ SortKey(call.results[p]) > SortKey(call.results[q])

\* C30: if the results lack a non-empty result for a submitted chunk,
\* optimize_chapter does not return and nothing is written: when it has
\* returned, every chunk 0..n-1 has its content among the results.
C30_IncompleteJobFails ==
    (call.fn = "optimize_chapter" /\ call.status = "returned") =>
        \A k \in 0..(call.n - 1) :
            \E p \in DOMAIN call.results : call.results[p].content = <<k>>

\* C31: the optimized text of a chapter is never assembled or written while
\* one of its batch jobs is still pending: when optimize_chapter has
\* returned, no sub-batch was read before the service reported it ended.
C31_WrittenOnlyAfterEnded ==
    (call.fn = "optimize_chapter" /\ call.status = "returned") =>
        call.pending = {}

\* the calls made for chunk k, in the order they were made
CallsFor(k) == SelectSeq(call.log, LAMBDA e : e.chunk = k)

\* the fixed priority order of the backends
Priority == <<"DeepL", "NLLB", "Aya">>

\* C32: for every chunk the backends are called in the order DeepL, NLLB,
\* Aya, each only after every one before it has failed and none after one
\* has succeeded; the text kept for the chunk is that of the backend that
\* succeeded; translate() raises exactly when all three have failed for a
\* chunk; and when it returns, it returns one translation per chunk in
\* input order.
C32_FirstSuccessWins ==
    call.fn = "translate" =>
        /\ \A k \in 0..(call.n - 1) :
             LET calls == CallsFor(k) IN
             /\ Len(calls) <= Len(Priority)
             /\ \A j \in DOMAIN calls :
                  /\ calls[j].by = Priority[j]
                  /\ j < Len(calls) => ~calls[j].ok
             /\ k < Len(call.translated_chunks) =>
                  /\ calls # <<>>
                  /\ calls[Len(calls)].ok
                  /\ call.translated_chunks[k + 1] =
                        [by |-> calls[Len(calls)].by, chunk |-> k]
        /\ call.status = "raised" <=>
             \E k \in 0..(call.n - 1) :
                /\ Len(CallsFor(k)) = Len(Priority)
                /\ \A j \in DOMAIN CallsFor(k) : ~CallsFor(k)[j].ok
        /\ call.status = "raised" => call.exc = AllTranslatorsFailed
        /\ call.status = "returned" =>
             /\ Len(call.translated_chunks) = call.n
             /\ \A k \in 0..(call.n - 1) : call.translated_chunks[k + 1].chunk = k

\* C32 witness: translate() has returned several chunks, one of them
\* translated by NLLB after DeepL failed and one by Aya after both failed.
C32_Witness ==
    /\ call.fn = "translate"
    /\ call.status = "returned"
    /\ call.n >= 2
    /\ \E k \in 0..(call.n - 1) : call.translated_chunks[k + 1].by = "NLLB"
    /\ \E k \in 0..(call.n - 1) : call.translated_chunks[k + 1].by = "Aya"

\* the stage that precedes stage s in the progression of the run
Preceding(s) ==
    LET prog == Progression(translate)
        i == CHOOSE i \in DOMAIN prog : prog[i] = s
    IN  prog[i - 1]

\* C33: when a stage method of process() fails while stage S is in
\* progress, get_last_successful_stage() then returns the stage that
\* precedes S in the progression, and not S.
C33_FailedStageNotSuccessful ==
    [][(/\ pc # "except"
        /\ pc' = "except"
        /\ ps.state.stage \in {PDF_PROCESSING, TRANSLATION, OPTIMIZATION, AUDIO_GENERATION}
        /\ ps'.state.stage = FAILED)
       => /\ get_last_successful_stage(ps') # ps.state.stage
          /\ get_last_successful_stage(ps') = Preceding(ps.state.stage)]_vars

ArtifactChaptersOf(prefix) ==
    {ps.state.artifacts[i].name.num :
        i \in {j \in DOMAIN ps.state.artifacts :
                  ps.state.artifacts[j].name.prefix = prefix}}

\* process() is awaiting optimizer.optimize / audio_gen.generate_chapter
OptCallInProgress == pc = "optimize_call" /\ opt.status = "running"
AudioCallInProgress == pc = "audio_call" /\ gen.status = "running"

OwnChunksInOrder(c) ==
    Join([i \in 1..Cardinality({j \in DOMAIN call.chunks : call.chunks[j].metadata.chapter_id = c}) |->
            LET j == CHOOSE j \in DOMAIN call.chunks :
                        /\ call.chunks[j].metadata.chapter_id = c
                        /\ Cardinality({k \in DOMAIN call.chunks :
                              /\ call.chunks[k].metadata.chapter_id = c
                              /\ call.chunks[k].metadata.position
                                    <= call.chunks[j].metadata.position}) = i
            IN  Translation(call.chunks[j].text)],
         <<"\n", "\n">>)

\* no chunk holds sentences of two chapters
C36_ChunksOfOneChapter ==
    call.fn = "translate_chapters" =>
        \A i \in DOMAIN call.chunks :
            call.chunks[i].from = {call.chunks[i].metadata.chapter_id}

\* every chapter that is returned is the concatenation of its own chunks in
\* the order of their positions, whatever the order of completion
C36_OwnChunksInPositionOrder ==
    (call.fn = "translate_chapters" /\ call.status = "returned") =>
        \A c \in DOMAIN call.translated : call.translated[c] = OwnChunksInOrder(c)

\* C36: translate_chapters restores the order of the chunks of each chapter:
\* no chunk of _split_chapters holds sentences of two chapters, every
\* returned chapter is the concatenation of its own translated chunks in
\* position order whatever the order in which the calls completed, and the
\* output has exactly the chapter keys of the input.
C36_ChaptersRestored ==
    /\ C36_ChunksOfOneChapter
    /\ C36_OwnChunksInPositionOrder
    /\ (call.fn = "translate_chapters" /\ call.status = "returned") =>
          DOMAIN call.translated = DOMAIN call.chapters

BatchesDrained ==
    /\ \A c \in DOMAIN gen.tasks : gen.tasks[c].st \in {"ok", "err"}
    /\ \A c \in DOMAIN opt.tasks : opt.tasks[c].st \in {"ok", "err"}
    /\ gen.tasks # <<>> => gen.sem = AUDIO_MAX_CONCURRENT_REQUESTS
    /\ opt.sem = OPT_MAX_CONCURRENT_REQUESTS

\* C38: under fair scheduling every chunk batch drains: every task passes
\* the semaphore and ends with a result or an error, and every permit is
\* given back, also when every external call fails.
C38_BatchDrains == <>[]BatchesDrained

\* C38 witness: a batch of more tasks than the semaphore has permits has
\* drained after every external call failed.
C38_Witness ==
    /\ Len(gen.tasks) > AUDIO_MAX_CONCURRENT_REQUESTS
    /\ \A c \in DOMAIN gen.tasks :
         gen.tasks[c].st = "err" /\ gen.tasks[c].retries = AUDIO_MAX_RETRIES
    /\ gen.sem = AUDIO_MAX_CONCURRENT_REQUESTS

\* C39: AudioGenerator._split_text never returns an empty chunk.
C39_NoEmptyAudioChunk ==
    call.fn = "AudioGenerator._split_text" =>
        \A i \in DOMAIN call.chunks : call.chunks[i] # <<>>

\* the number of characters of the lines from .. to of the file
RECURSIVE CharsOf(_, _, _)
CharsOf(lines, from, to) ==
    IF from > to THEN 0 ELSE Len(lines[from + 1]) + CharsOf(lines, from + 1, to)

\* C40: every iteration of the loop of split_markdown_file moves current_idx
\* forward by at least one line, also when the line at current_idx is longer
\* than max_chars; the part it emits is the range of lines from the old
\* current_idx to the new one, of at most max_chars characters; and the loop
\* ends by returning, with every line covered.
C40_EveryIterationAdvances ==
    [][(call.fn = "split_markdown_file" /\ call.status = "running" /\ call' # call)
       => /\ call'.status # "raised"
          /\ call'.status = "running" =>
               /\ call'.current_idx > call.current_idx
               /\ CharsOf(call.lines, call.current_idx, call'.current_idx - 1)
                     <= call.max_chars
          /\ call'.status = "returned" => call.current_idx = Len(call.lines)]_vars

====
